---- MODULE Spec2Model ----
(***************************************************************************)
(* Model of the odoo-data-migration pipeline: the MappingProvider          *)
(* (app/migration/core/mapping.py), the entity handlers                    *)
(* (app/migration/handlers/*.py) and the executor                          *)
(* (app/migration/executor.py).                                            *)
(*                                                                         *)
(* The two Odoo systems are modelled as tables: per model name a sequence  *)
(* of records ordered by id.  A source record is [id, key, new_id] where   *)
(* key is the value of the handler's natural-key field (login for          *)
(* res.users, name elsewhere) and new_id is the back-reference field; a    *)
(* destination record is [id, key].                                        *)
(***************************************************************************)
EXTENDS Integers, Sequences, FiniteSets, TLC

VARIABLES
    \* ---- the two Odoo systems
    src,         \* source system: model name -> records [id, key, new_id] by id
    dst,         \* destination system: model name -> records [id, key] by id
    \* ---- MappingProvider (mapping.py) and its directory of .map files
    cache,       \* MappingProvider.cache: model name -> (source id -> dest id)
    files,       \* mapping_dir: model name -> lines of "<model>.map"
    \* ---- the running process: Migration.run / migrate_model and the handler
    run,         \* number of the current run of the pipeline (main())
    pc,          \* position of the process in run / migrate_model
    modelIdx,    \* index in models_to_migrate of the model being migrated
    offset,      \* migrate_model: offset
    records,     \* migrate_model: the page fetched last
    recIdx,      \* index in records of the record to transform next
    transformed_records,  \* migrate_model: operations accumulated for the page
    opIdx,       \* save_into_destination: index of the operation applied next
    new_id,      \* save_into_destination: id returned by dst_model.create
    dst_record,  \* save_into_destination: id of the record to update
    registered,  \* the models that have a handler in models_handlers
    \* ---- history kept for the properties
    dst0,        \* the destination system as the first run found it
    opLog,       \* every create / update the handlers issued, in order
    pageLog,     \* the fetches of the current migrate_model call: [offset, n]
    visited,     \* ids passed to apply_transformations in the current call
    failure,     \* where the exception struck that ended the current call
    faults,      \* number of Odoo calls that raised in the current run
    runStatus,   \* how each earlier run ended, and the destination size then
    grown,       \* records another writer added to the source during the run
    called,      \* the models migrate_model was called for in the current run
    \* ---- two pipelines side by side (SpecPair)
    pairA, pairB,
    \* ---- the MappingProvider driven call by call (SpecMapping)
    raised,      \* exception that left the last MappingProvider call, or "none"
    ret,         \* value returned by the last get_mapping call
    lastOp,      \* the last MappingProvider call made and what it started from
    savedTable   \* per model, the table written by the last completed save_mappings

systemVars == <<src, dst>>

processVars ==
    <<run, pc, modelIdx, offset, records, recIdx, transformed_records, opIdx,
      new_id, dst_record, registered>>

historyVars ==
    <<dst0, opLog, pageLog, visited, failure, faults, runStatus, grown, called>>

pairVars == <<pairA, pairB>>

callVars == <<raised, ret, lastOp, savedTable>>

vars ==
    <<src, dst, cache, files, run, pc, modelIdx, offset, records, recIdx,
      transformed_records, opIdx, new_id, dst_record, dst0, opLog, pageLog,
      visited, failure, faults, runStatus, grown, pairA, pairB, raised, ret, lastOp,
      savedTable, registered, called>>

(***************************************************************************)
(* Bounds of the model.                                                    *)
(***************************************************************************)
\* largest destination identifier stored through the mapping API
MaxMapId == 2

\* number of records in the source system at the start (all models together)
MaxRecs == 3

\* number of runs of the pipeline in one behaviour
MaxRuns == 2

\* number of Odoo calls that raise in one behaviour
MaxFaults == 1

\* number of source records of a model in the side-by-side runs
MaxPairRecs == 2

\* page size of migrate_model (batch_size = 100 in executor.py), scaled down
batch_size == 2

\* page size of the MappingLoader (limit=100 and offset += 100 in
\* core/mapping.py), scaled down
loader_limit == 2

\* number of res.groups records of the source that the MappingLoader pages
\* through
MaxGroups == 5

(***************************************************************************)
(* Python values.                                                          *)
(***************************************************************************)
\* dict.get(k) of a missing key, and an unset integer field
None == 0

EmptyDict == [k \in {} |-> None]

\* d[k] = v on a dict
dict_set(d, k, v) == (k :> v) @@ d

\* d.get(k)
dict_get(d, k) == IF k \in DOMAIN d THEN d[k] ELSE None

(***************************************************************************)
(* Text of a mapping file.  A line is a sequence of one-character strings; *)
(* "LF" stands for the newline character.                                  *)
(***************************************************************************)
Digits == <<"0", "1", "2", "3", "4", "5", "6", "7", "8", "9">>

DigitValue(c) == CHOOSE i \in 0..9 : Digits[i + 1] = c

IsDigit(c) == \E i \in 1..10 : Digits[i] = c

IsSpace(c) == c \in {" ", "LF"}

\* str(n) for n >= 0, as used by the f-string of save_mappings
RECURSIVE py_str(_)
py_str(n) ==
    IF n < 10 THEN <<Digits[n + 1]>>
    ELSE py_str(n \div 10) \o <<Digits[(n % 10) + 1]>>

\* s.strip()
RECURSIVE py_strip(_)
py_strip(s) ==
    IF s = <<>> THEN s
    ELSE IF IsSpace(Head(s)) THEN py_strip(Tail(s))
    ELSE IF IsSpace(s[Len(s)]) THEN py_strip(SubSeq(s, 1, Len(s) - 1))
    ELSE s

\* s.split(sep) for a one-character separator: the list of the parts
RECURSIVE py_split(_, _)
py_split(s, sep) ==
    IF \A i \in 1..Len(s) : s[i] # sep THEN <<s>>
    ELSE LET i == CHOOSE j \in 1..Len(s) :
                      s[j] = sep /\ \A k \in 1..(j - 1) : s[k] # sep
         IN <<SubSeq(s, 1, i - 1)>> \o py_split(SubSeq(s, i + 1, Len(s)), sep)

\* whether int(s) raises ValueError
int_raises(s) ==
    LET t == py_strip(s) IN t = <<>> \/ \E i \in 1..Len(t) : ~IsDigit(t[i])

\* int(s) for a string of digits
RECURSIVE py_int_digits(_)
py_int_digits(t) ==
    IF t = <<>> THEN 0
    ELSE 10 * py_int_digits(SubSeq(t, 1, Len(t) - 1)) + DigitValue(t[Len(t)])

py_int(s) == py_int_digits(py_strip(s))

\* the line save_mappings writes for one entry: f"{source_id}->{dest_id}\n"
format_line(source_id, dest_id) ==
    py_str(source_id) \o <<"-", ">">> \o py_str(dest_id) \o <<"LF">>

\* the statement of the reader's loop body on one line:
\*   source_id, dest_id = line.strip().split('=')
\*   cache[int(source_id.strip())] = int(dest_id.strip())
\* [ok |-> FALSE] stands for the ValueError of the unpacking or of int()
parse_line(line) ==
    LET parts == py_split(py_strip(line), "=") IN
    IF Len(parts) # 2 THEN [ok |-> FALSE, source_id |-> None, dest_id |-> None]
    ELSE IF int_raises(parts[1]) \/ int_raises(parts[2])
         THEN [ok |-> FALSE, source_id |-> None, dest_id |-> None]
         ELSE [ok |-> TRUE, source_id |-> py_int(parts[1]), dest_id |-> py_int(parts[2])]

\* for line in f: ... over the lines of an opened file, into model_cache
RECURSIVE read_lines(_, _)
read_lines(model_cache, lines) ==
    IF lines = <<>> THEN [table |-> model_cache, raised |-> "none"]
    ELSE LET p == parse_line(Head(lines)) IN
         IF ~p.ok THEN [table |-> model_cache, raised |-> "ValueError"]
         ELSE read_lines(dict_set(model_cache, p.source_id, p.dest_id), Tail(lines))

\* the keys of a dict in increasing order (the order of the lines of a
\* file does not matter to its reader)
RECURSIVE sorted_keys(_)
sorted_keys(S) ==
    IF S = {} THEN <<>>
    ELSE LET m == CHOOSE x \in S : \A y \in S : x <= y
         IN <<m>> \o sorted_keys(S \ {m})

\* for source_id, dest_id in table.items(): f.write(...)
write_lines(table) ==
    LET ks == sorted_keys(DOMAIN table)
    IN [i \in 1..Len(ks) |-> format_line(ks[i], table[ks[i]])]

(***************************************************************************)
(* MappingProvider: the methods as functions of the cache c and the        *)
(* mapping directory f.                                                    *)
(***************************************************************************)
\* faulty variant of ensure_model: the table of the model is made anew at
\* every call
ensure_model_reset(c, model_name) == (model_name :> EmptyDict) @@ c

\* if model_name not in self.cache: self.cache[model_name] = {}
ensure_model(c, model_name) ==
    IF model_name \in DOMAIN c THEN c ELSE (model_name :> EmptyDict) @@ c

\* os.path.exists(mapping_file)
path_exists(f, model_name) == model_name \in DOMAIN f

load_mappings_from_files(c, f, model_name) ==
    LET c1 == ensure_model(c, model_name) IN
    IF ~path_exists(f, model_name)
    THEN \* open(mapping_file, 'r')
         IF model_name \in DOMAIN f
         THEN LET r == read_lines(c1[model_name], f[model_name])
              IN [cache |-> [c1 EXCEPT ![model_name] = r.table], raised |-> r.raised]
         ELSE [cache |-> c1, raised |-> "FileNotFoundError"]
    ELSE [cache |-> c1, raised |-> "none"]

\* open(mapping_file, 'w') truncates the file before self.cache[model_name]
\* is looked up
save_mappings(c, f, model_name) ==
    IF model_name \in DOMAIN c
    THEN [files |-> (model_name :> write_lines(c[model_name])) @@ f, raised |-> "none"]
    ELSE [files |-> (model_name :> <<>>) @@ f, raised |-> "KeyError"]

RECURSIVE save_all_from(_, _, _)
save_all_from(c, f, names) ==
    IF names = <<>> THEN f
    ELSE save_all_from(c, save_mappings(c, f, Head(names)).files, Tail(names))

\* the model names, in one fixed order
ModelOrder ==
    <<"res.groups", "res.users", "res.partner", "product.template",
      "product.attribute", "product.category", "product.attribute.value",
      "product.attribute.line">>

\* for model_name in self.cache: self.save_mappings(model_name)
save_all_mappings(c, f) ==
    save_all_from(c, f, SelectSeq(ModelOrder, LAMBDA m : m \in DOMAIN c))

get_mapping(c, model_name, source_id) ==
    LET c1 == ensure_model(c, model_name)
    IN [cache |-> c1, result |-> dict_get(c1[model_name], source_id)]

\* faulty variant of set_mapping: an entry that exists is kept
set_mapping_keep_first(c, model_name, source_id, dest_id) ==
    LET c1 == ensure_model(c, model_name)
    IN IF source_id \in DOMAIN c1[model_name]
       THEN c1
       ELSE [c1 EXCEPT ![model_name] = dict_set(c1[model_name], source_id, dest_id)]

set_mapping(c, model_name, source_id, dest_id) ==
    LET c1 == ensure_model(c, model_name)
    IN [c1 EXCEPT ![model_name] = dict_set(c1[model_name], source_id, dest_id)]

(***************************************************************************)
(* The Odoo systems (core/odoo.py, handlers/base.py).                      *)
(***************************************************************************)
Keys == {"a", "b"}

AllModels == {ModelOrder[i] : i \in 1..Len(ModelOrder)}

Min(x, y) == IF x <= y THEN x ELSE y

\* faulty variant of fetch_items: a window that starts one record early, so
\* that a page after the first repeats the last record of the page before
fetch_items_overlap(table, off, limit) ==
    SubSeq(table, IF off = 0 THEN 1 ELSE off, Min(off + limit, Len(table)))

\* model.search([], offset=offset, limit=limit, order="id") then browse:
\* the records of the table from position offset + 1 on, at most limit
fetch_items(table, off, limit) ==
    SubSeq(table, off + 1, Min(off + limit, Len(table)))

\* model.search([(field, '=', value)], limit=1): ids of the first match
search_by_key(table, value) ==
    LET hits == {i \in 1..Len(table) : table[i].key = value}
    IN IF hits = {} THEN <<>>
       ELSE <<table[CHOOSE i \in hits : \A j \in hits : i <= j].id>>

\* whether model.browse(id) finds the record
id_exists(table, id) == \E i \in 1..Len(table) : table[i].id = id

\* position in the table of the record model.browse(id) designates
index_of(table, id) == CHOOSE i \in 1..Len(table) : table[i].id = id

\* model.create(data): the table with the new record, whose id is new
odoo_create(table, key) ==
    Append(table, [id |-> IF table = <<>> THEN 1 ELSE table[Len(table)].id + 1,
                   key |-> key])

\* record.unlink(): the table without the record
odoo_unlink(table, id) == SelectSeq(table, LAMBDA r : r.id # id)

\* record.write(data) on a destination record
odoo_write(table, id, key) ==
    [table EXCEPT ![index_of(table, id)].key = key]

\* faulty variant of write_new_id: the back-reference goes into a new record
\* of the source (create where write is meant)
write_new_id_create(table, id, value) ==
    Append(table, [id |-> Len(table) + 1, key |-> table[index_of(table, id)].key,
                   new_id |-> value])

\* src_record.write({'new_id': value})
write_new_id(table, id, value) ==
    [table EXCEPT ![index_of(table, id)].new_id = value]

\* whether records of the model carry a login field (res.users only)
has_login(model_name) == model_name = "res.users"

(***************************************************************************)
(* MappingLoader (core/mapping.py) and the method of MappingProvider that  *)
(* builds one.                                                             *)
(***************************************************************************)
\* for src_item in src_items: the value of the field is searched with
\* self.odoo_src.search_by_field(..., field_name="name", ...), and the first
\* id found is stored under the id of src_item
RECURSIVE loader_items(_, _, _)
loader_items(odoo_src_table, src_items, cache_model) ==
    IF src_items = <<>> THEN cache_model
    ELSE LET src_item == Head(src_items)
             dst_items == search_by_key(odoo_src_table, src_item.key)
         IN loader_items(odoo_src_table, Tail(src_items),
                         IF Len(dst_items) > 0
                         THEN dict_set(cache_model, src_item.id, dst_items[1])
                         ELSE cache_model)

\* faulty variant of loader_eof: a page that is not full ends the loop
loader_eof_short_page(src_items) == Len(src_items) < loader_limit

\* eof = (src_items is None or len(src_items) == 0)
loader_eof(src_items) == Len(src_items) = 0

\* one turn of the while loop: the page fetched at the offset, eof, the
\* loader's table after the for loop (skipped when eof), offset += 100
loader_turn(odoo_src_table, off, cache_model) ==
    LET src_items == fetch_items(odoo_src_table, off, loader_limit) IN
    [src_items |-> src_items,
     eof |-> loader_eof(src_items),
     cache_model |-> IF loader_eof(src_items) THEN cache_model
                     ELSE loader_items(odoo_src_table, src_items, cache_model),
     offset |-> off + loader_limit]

\* while not eof: the turns of the loop, until one sets eof
RECURSIVE loader_pages(_, _, _)
loader_pages(odoo_src_table, off, cache_model) ==
    LET t == loader_turn(odoo_src_table, off, cache_model) IN
    IF t.eof THEN t.cache_model
    ELSE loader_pages(odoo_src_table, t.offset, t.cache_model)

\* MappingLoader.load_mapping_by_field_from_database on a new loader: the
\* loader's own cache after the call
load_mapping_by_field_from_database(odoo_src, odoo_dst, model_name) ==
    (model_name :> loader_pages(odoo_src[model_name], 0, EmptyDict))

\* MappingProvider.load_mappings_from_database: a MappingLoader is built, and
\* fills its own cache; self.cache is not assigned
load_mappings_from_database(c, odoo_src, odoo_dst, model_name) ==
    [cache |-> c,
     loaded |-> load_mapping_by_field_from_database(odoo_src, odoo_dst, model_name)]

(***************************************************************************)
(* The handlers (handlers/res_users.py, res_partner.py,                    *)
(* product_attribute.py).                                                  *)
(***************************************************************************)
\* Migration.models_to_migrate
models_to_migrate ==
    <<"res.users", "res.partner", "product.template", "product.attribute",
      "product.category", "product.attribute.value", "product.attribute.line">>

\* Migration.models_handlers.  The handler of res.partner is the class that
\* handlers/res_partner.py defines, which executor.py imports under the name
\* ResPartnerHandler
models_handlers ==
    [m \in {models_to_migrate[i] : i \in 1..Len(models_to_migrate)} |->
        CASE m = "res.users" -> "ResUsersHandler"
          [] m = "res.partner" -> "ResPartnerHandler"
          [] m = "product.template" -> "ProductTemplateHandler"
          [] m = "product.attribute" -> "ProductAttributeHandler"
          [] m = "product.category" -> "ProductCategoryHandler"
          [] m = "product.attribute.value" -> "ProductAttributeValueHandler"
          [] m = "product.attribute.line" -> "ProductAttributeLineHandler"]

\* the MappingProvider each handler of models_handlers was constructed with:
\* the one object Migration.__init__ built, self.mappings_provider
handler_mapping_provider(h) == "mappings_provider"

\* the models whose destination records the handler of a scheduled model
\* looks up to translate a reference: find_dest_group_id of the handler of
\* res.users (res.groups), find_dst_product_tmpl and find_dst_attribute of
\* the handler of product.attribute.line, find_dst_attribute of the handler
\* of attribute values
handler_foreign_keys(m) ==
    CASE m = "res.users" -> {"res.groups"}
      [] m = "product.attribute.line" -> {"product.template", "product.attribute"}
      [] m = "product.attribute.value" -> {"product.attribute"}
      [] OTHER -> {}

\* the reference of a product.template to its product.category; the handler
\* of product.template is not part of the code at hand
product_template_foreign_keys(m) ==
    IF m = "product.template" THEN {"product.category"} ELSE {}

\* self.model_name, as each handler's __init__ passes it to DomainHandler
handler_model_name(h) ==
    CASE h = "ResUsersHandler" -> "res.users"
      [] h = "ResPartnerHandler" -> "res.users"
      [] h = "ProductAttributeHandler" -> "product.attribute"

\* whether the handler's natural key is the login field (else it is name)
key_is_login(h) == h \in {"ResUsersHandler", "ResPartnerHandler"}

\* faulty variant of user_exists: the search goes to the wrong model
user_exists_in_partners(w, login) ==
    Len(search_by_key(w.dst["res.partner"], login)) > 0

\* ResUsersHandler.user_exists (ResPartnerHandler.user_exists is the same)
user_exists(w, login) == Len(search_by_key(w.dst["res.users"], login)) > 0

\* ProductAttributeHandler.attribute_exists
attribute_exists(w, name) ==
    Len(search_by_key(w.dst["product.attribute"], name)) > 0

\* faulty variant of the existence check: it trusts the back-reference of
\* the source records instead of searching the destination
exists_by_back_reference(w, h, key) ==
    LET table == w.src[handler_model_name(h)]
    IN \E i \in 1..Len(table) : table[i].key = key /\ table[i].new_id # None

\* the existence check each handler's apply_transformations starts with
exists_in_destination(w, h, key) ==
    IF key_is_login(h) THEN user_exists(w, key) ELSE attribute_exists(w, key)

\* faulty variant of apply_transformations: the operation is appended in
\* both branches of the existence check
apply_transformations_twice(w, h, record) ==
    <<[action |-> "update", model |-> handler_model_name(h),
       old_id |-> record.id, key |-> record.key],
      [action |-> "create", model |-> handler_model_name(h),
       old_id |-> record.id, key |-> record.key]>>

\* apply_transformations of the three handlers: one operation per record,
\* update when the existence check finds the key, create otherwise
apply_transformations(w, h, record) ==
    <<[action |-> IF exists_in_destination(w, h, record.key)
                  THEN "update" ELSE "create",
       model |-> handler_model_name(h),
       old_id |-> record.id,
       key |-> record.key]>>

\* reading record.login raises AttributeError on a record without the field
transform_raises(h, fetched_model) == key_is_login(h) /\ ~has_login(fetched_model)

\* faulty variant of resolve_target: the search by natural key is made
\* whether or not the source record has a back-reference
resolve_target_by_search(d, op, src_record) ==
    LET result == search_by_key(d[op.model], src_record.key)
    IN IF Len(result) > 0
       THEN [raised |-> FALSE, id |-> result[1]]
       ELSE [raised |-> FALSE, id |-> None]

\* update branch of save_into_destination: the record to write to.
\*   [raised] browse(new_id) of an id that is not in the destination raises;
\*   [id] the target, None when the search finds nothing
resolve_target(d, op, src_record) ==
    IF src_record.new_id # None /\ src_record.new_id > 0
    THEN IF id_exists(d[op.model], src_record.new_id)
         THEN [raised |-> FALSE, id |-> src_record.new_id]
         ELSE [raised |-> TRUE, id |-> None]
    ELSE LET result == search_by_key(d[op.model], src_record.key)
         IN IF Len(result) > 0
            THEN [raised |-> FALSE, id |-> result[1]]
            ELSE [raised |-> FALSE, id |-> None]

(***************************************************************************)
(* The process, as functions of its world w: the record of the Odoo        *)
(* systems, the MappingProvider, the position of the process and the       *)
(* history.                                                                *)
(***************************************************************************)
EmptyTables == [m \in AllModels |-> <<>>]

\* the handler migrate_model works with
handler_of(w) == models_handlers[models_to_migrate[w.modelIdx]]

current_model(w) == models_to_migrate[w.modelIdx]

\* no exception has ended the current migrate_model call
NoFailure == [pc |-> "none", opIdx |-> 0, ops |-> 0]

\* the pages / operations a migrate_model call holds, cleared
clear_page(w) ==
    [w EXCEPT !.records = <<>>, !.recIdx = 1, !.transformed_records = <<>>,
              !.opIdx = 1, !.new_id = None, !.dst_record = None]

\* Migration(configs, src_odoo, dst_odoo, mappings_dir) then run(): the
\* MappingProvider is new, the first model is due
Migration_init(w) ==
    [clear_page(w) EXCEPT !.cache = EmptyDict, !.pc = "start", !.modelIdx = 1,
                          !.offset = 0, !.pageLog = <<>>, !.visited = <<>>,
                          !.failure = NoFailure, !.called = <<>>]

\* faulty variant of migrate_model_start: the page loop is entered whether
\* or not the lookup found a handler
migrate_model_start_unchecked(w) ==
    [clear_page(w) EXCEPT !.pc = "fetch", !.offset = 0, !.pageLog = <<>>,
                          !.visited = <<>>, !.failure = NoFailure,
                          !.called = Append(w.called, current_model(w))]

\* migrate_model: the handler lookup, eof = False, offset = 0
migrate_model_start(w) ==
    LET entered == Append(w.called, current_model(w)) IN
    IF current_model(w) \in w.registered
    THEN [clear_page(w) EXCEPT !.pc = "fetch", !.offset = 0, !.pageLog = <<>>,
                               !.visited = <<>>, !.failure = NoFailure,
                               !.called = entered]
    ELSE \* raise HandlerNotFoundException, caught by except Exception
         [clear_page(w) EXCEPT !.pc = "failed", !.pageLog = <<>>,
                               !.visited = <<>>,
                               !.failure = [NoFailure EXCEPT !.pc = "start"],
                               !.called = entered]

\* faulty variant of eof: a page shorter than batch_size ends the loop
eof_short_page(page) == Len(page) < batch_size

\* eof = records is not None and len(records) < 1
eof(page) == Len(page) < 1

\* one turn of the while loop up to the test of eof
migrate_model_fetch(w) ==
    LET page == fetch_items(w.src[current_model(w)], w.offset, batch_size)
        logged == Append(w.pageLog, [offset |-> w.offset, n |-> Len(page)])
    IN IF eof(page)
       THEN [clear_page(w) EXCEPT !.pc = "complete", !.pageLog = logged,
                                  !.offset = w.offset + batch_size]
       ELSE [clear_page(w) EXCEPT !.pc = "transform", !.pageLog = logged,
                                  !.records = page]

\* faulty variant of migrate_model_transform: save_into_destination is
\* called inside the for loop, after the first record of the page
migrate_model_transform_save_each(w) ==
    LET record == w.records[w.recIdx]
        h == handler_of(w)
    IN IF transform_raises(h, current_model(w))
       THEN [w EXCEPT !.pc = "failed",
                      !.visited = Append(w.visited, record.id)]
       ELSE [w EXCEPT !.transformed_records =
                          w.transformed_records \o apply_transformations(w, h, record),
                      !.visited = Append(w.visited, record.id),
                      !.recIdx = w.recIdx + 1,
                      !.pc = "save"]

\* transformed_records += handler.apply_transformations(record)
migrate_model_transform(w) ==
    LET record == w.records[w.recIdx]
        h == handler_of(w)
    IN IF transform_raises(h, current_model(w))
       THEN [w EXCEPT !.pc = "failed",
                      !.visited = Append(w.visited, record.id)]
       ELSE [w EXCEPT !.transformed_records =
                          w.transformed_records \o apply_transformations(w, h, record),
                      !.visited = Append(w.visited, record.id),
                      !.recIdx = w.recIdx + 1,
                      !.pc = IF w.recIdx < Len(w.records) THEN "transform" ELSE "save"]

\* faulty variant of next_operation: migrate_model does not advance the
\* offset after the page
next_operation_same_offset(w) ==
    IF w.opIdx < Len(w.transformed_records)
    THEN [w EXCEPT !.opIdx = w.opIdx + 1, !.pc = "save",
                   !.new_id = None, !.dst_record = None]
    ELSE [clear_page(w) EXCEPT !.pc = "fetch"]

\* the for loop of save_into_destination moves to the next operation; after
\* the last one migrate_model does offset += batch_size
next_operation(w) ==
    IF w.opIdx < Len(w.transformed_records)
    THEN [w EXCEPT !.opIdx = w.opIdx + 1, !.pc = "save",
                   !.new_id = None, !.dst_record = None]
    ELSE [clear_page(w) EXCEPT !.offset = w.offset + batch_size, !.pc = "fetch"]

\* the entry of opLog for the operation being applied
log_entry(w, op, target) ==
    [run |-> w.run, model |-> current_model(w), action |-> op.action,
     old_id |-> op.old_id, key |-> op.key, dst_id |-> target,
     existed |-> Len(search_by_key(w.dst[op.model], op.key)) > 0]

\* save_into_destination, one operation: new_id = dst_model.create(data) for
\* a create; for an update the target and src_record.write({'new_id': ...})
save_into_destination(w) ==
    LET op == w.transformed_records[w.opIdx]
        h == handler_of(w)
        src_table == w.src[handler_model_name(h)]
    IN IF ~id_exists(src_table, op.old_id)
       THEN [w EXCEPT !.pc = "failed"]
       ELSE
       LET src_record == src_table[index_of(src_table, op.old_id)] IN
       IF op.action = "create"
       THEN LET table == odoo_create(w.dst[op.model], op.key)
                id == table[Len(table)].id
            IN [w EXCEPT !.dst[op.model] = table, !.new_id = id,
                         !.opLog = Append(w.opLog, log_entry(w, op, id)),
                         !.pc = "backref"]
       ELSE LET t == resolve_target(w.dst, op, src_record) IN
            IF t.raised THEN [w EXCEPT !.pc = "failed"]
            ELSE IF t.id = None
            THEN next_operation(
                     [w EXCEPT !.opLog = Append(w.opLog, log_entry(w, op, None))])
            ELSE [w EXCEPT !.src[handler_model_name(h)] =
                               write_new_id(src_table, op.old_id, t.id),
                           !.dst_record = t.id,
                           !.opLog = Append(w.opLog, log_entry(w, op, t.id)),
                           !.pc = "update_write"]

\* create: src_record.write({'new_id': new_id})
save_back_reference(w) ==
    LET op == w.transformed_records[w.opIdx]
        m == handler_model_name(handler_of(w))
    IN next_operation(
           [w EXCEPT !.src[m] = write_new_id(w.src[m], op.old_id, w.new_id)])

\* update: dst_record.write(data)
save_update_write(w) ==
    LET op == w.transformed_records[w.opIdx]
    IN IF id_exists(w.dst[op.model], w.dst_record)
       THEN next_operation(
                [w EXCEPT !.dst[op.model] =
                              odoo_write(w.dst[op.model], w.dst_record, op.key)])
       ELSE \* the record is gone: the write raises
            [w EXCEPT !.pc = "failed"]

\* size of the destination system
RECURSIVE count_upto(_, _)
count_upto(d, i) ==
    IF i = 0 THEN 0 ELSE Len(d[ModelOrder[i]]) + count_upto(d, i - 1)

dst_count(w) == count_upto(w.dst, Len(ModelOrder))

\* faulty variant of migrate_model_end: an exception caught in migrate_model
\* ends the run instead of the entity type
migrate_model_end_abort(w) ==
    IF w.pc = "complete" /\ w.modelIdx < Len(models_to_migrate)
    THEN [w EXCEPT !.modelIdx = w.modelIdx + 1, !.pc = "start"]
    ELSE [w EXCEPT !.pc = "done",
                   !.runStatus = Append(w.runStatus,
                                        [status |-> "complete",
                                         faults |-> w.faults,
                                         dst_count |-> dst_count(w)])]

\* faulty variant of migrate_model_end: run() calls migrate_model again for
\* the model that has just been migrated
migrate_model_end_again(w) ==
    IF w.modelIdx < Len(models_to_migrate)
    THEN [w EXCEPT !.pc = "start"]
    ELSE [w EXCEPT !.pc = "done"]

\* migrate_model returns (after the loop, or from an except clause that
\* logged the error); run() takes the next model of models_to_migrate
migrate_model_end(w) ==
    IF w.modelIdx < Len(models_to_migrate)
    THEN [w EXCEPT !.modelIdx = w.modelIdx + 1, !.pc = "start"]
    ELSE [w EXCEPT !.pc = "done",
                   !.runStatus = Append(w.runStatus,
                                        [status |-> "complete",
                                         faults |-> w.faults,
                                         dst_count |-> dst_count(w)])]

\* an Odoo call of the current step raises: the exception leaves
\* save_into_destination / apply_transformations / fetch_items and is
\* caught by the except clauses of migrate_model
raise_exception(w) ==
    [w EXCEPT !.pc = "failed", !.faults = w.faults + 1,
              !.failure = [pc |-> w.pc, opIdx |-> w.opIdx,
                           ops |-> Len(w.transformed_records)]]

\* a call of the MappingLoader raises inside
\* load_mappings_from_database("res.groups", "name"): neither the loader, nor
\* Migration.__init__, nor main() (whose try ends before Migration is built)
\* catches the exception, and the process ends before run() is called
Migration_init_raises(w) ==
    [w EXCEPT !.pc = "aborted", !.faults = w.faults + 1,
              !.failure = [pc |-> w.pc, opIdx |-> 0, ops |-> 0],
              !.runStatus = Append(w.runStatus,
                                   [status |-> "aborted",
                                    faults |-> w.faults + 1,
                                    dst_count |-> dst_count(w)])]

\* main() is started again: a new process, a new Migration
new_run(w, how) ==
    [clear_page(w) EXCEPT
        !.run = w.run + 1, !.pc = "init", !.modelIdx = 1, !.offset = 0,
        !.cache = EmptyDict, !.pageLog = <<>>, !.visited = <<>>,
        !.failure = NoFailure, !.faults = 0, !.called = <<>>,
        !.runStatus = IF how = "interrupted"
                      THEN Append(w.runStatus,
                                  [status |-> "interrupted",
                                   faults |-> w.faults,
                                   dst_count |-> dst_count(w)])
                      ELSE w.runStatus]

\* number of Odoo calls that raised so far, in all runs
RECURSIVE faults_of(_)
faults_of(rs) == IF rs = <<>> THEN 0 ELSE rs[1].faults + faults_of(Tail(rs))

\* another writer creates a record in the source model being migrated
source_insert(w, key) ==
    LET m == current_model(w)
        table == w.src[m]
    IN [w EXCEPT !.src[m] = Append(table, [id |-> Len(table) + 1, key |-> key,
                                           new_id |-> None]),
                 !.grown = w.grown + 1]

\* the step the process takes next, by its position
step(w) ==
    CASE w.pc = "init" -> Migration_init(w)
      [] w.pc = "start" -> migrate_model_start(w)
      [] w.pc = "fetch" -> migrate_model_fetch(w)
      [] w.pc = "transform" -> migrate_model_transform(w)
      [] w.pc = "save" -> save_into_destination(w)
      [] w.pc = "backref" -> save_back_reference(w)
      [] w.pc = "update_write" -> save_update_write(w)
      [] w.pc \in {"complete", "failed"} -> migrate_model_end(w)

\* the positions at which the process is inside an Odoo call
InOdooCall(w) == w.pc \in {"fetch", "transform", "save", "backref", "update_write"}

(***************************************************************************)
(* The state of the model as one world, and back.                          *)
(***************************************************************************)
W ==
    [src |-> src, dst |-> dst, cache |-> cache, files |-> files, run |-> run,
     pc |-> pc, modelIdx |-> modelIdx, offset |-> offset, records |-> records,
     recIdx |-> recIdx, transformed_records |-> transformed_records,
     opIdx |-> opIdx, new_id |-> new_id, dst_record |-> dst_record,
     dst0 |-> dst0, opLog |-> opLog, pageLog |-> pageLog, visited |-> visited,
     failure |-> failure, faults |-> faults, runStatus |-> runStatus,
     grown |-> grown, registered |-> registered, called |-> called]

Commit(w) ==
    /\ src' = w.src
    /\ dst' = w.dst
    /\ cache' = w.cache
    /\ files' = w.files
    /\ run' = w.run
    /\ pc' = w.pc
    /\ modelIdx' = w.modelIdx
    /\ offset' = w.offset
    /\ records' = w.records
    /\ recIdx' = w.recIdx
    /\ transformed_records' = w.transformed_records
    /\ opIdx' = w.opIdx
    /\ new_id' = w.new_id
    /\ dst_record' = w.dst_record
    /\ dst0' = w.dst0
    /\ opLog' = w.opLog
    /\ pageLog' = w.pageLog
    /\ visited' = w.visited
    /\ failure' = w.failure
    /\ faults' = w.faults
    /\ runStatus' = w.runStatus
    /\ grown' = w.grown
    /\ registered' = w.registered
    /\ called' = w.called
    /\ UNCHANGED <<pairVars, callVars>>

\* the source table of the records with the given keys, ids 1, 2, ...
table_of(keys) ==
    [i \in 1..Len(keys) |-> [id |-> i, key |-> keys[i], new_id |-> None]]

\* the world a first run starts from
start_world(s, d, c) ==
    [src |-> s, dst |-> d, cache |-> c, files |-> EmptyDict, run |-> 1,
     pc |-> "init", modelIdx |-> 1, offset |-> 0, records |-> <<>>,
     recIdx |-> 1, transformed_records |-> <<>>, opIdx |-> 1,
     new_id |-> None, dst_record |-> None, dst0 |-> d, opLog |-> <<>>,
     pageLog |-> <<>>,
     visited |-> <<>>, failure |-> NoFailure, faults |-> 0,
     runStatus |-> <<>>, grown |-> 0,
     registered |-> DOMAIN models_handlers, called |-> <<>>]

\* the process variables hold the world w
IsWorld(w) ==
    /\ src = w.src
    /\ dst = w.dst
    /\ cache = w.cache
    /\ files = w.files
    /\ run = w.run
    /\ pc = w.pc
    /\ modelIdx = w.modelIdx
    /\ offset = w.offset
    /\ records = w.records
    /\ recIdx = w.recIdx
    /\ transformed_records = w.transformed_records
    /\ opIdx = w.opIdx
    /\ new_id = w.new_id
    /\ dst_record = w.dst_record
    /\ dst0 = w.dst0
    /\ opLog = w.opLog
    /\ pageLog = w.pageLog
    /\ visited = w.visited
    /\ failure = w.failure
    /\ faults = w.faults
    /\ runStatus = w.runStatus
    /\ grown = w.grown
    /\ registered = w.registered
    /\ called = w.called

\* natural keys of the records of a source model, in id order.  Keys are only
\* compared for equality, within one model, so the first record's is "a"
KeySeqs(n) ==
    {ks \in UNION {[1..k -> Keys] : k \in 0..n} : ks = <<>> \/ ks[1] = "a"}

\* login is unique among the res.users records of an Odoo system; the name
\* of a product.attribute is not
UserKeySeqs(n) ==
    {ks \in KeySeqs(n) : \A i, j \in 1..Len(ks) : ks[i] = ks[j] => i = j}

\* the source systems a run starts from.  The handlers of product.template,
\* product.category, product.attribute.value and product.attribute.line are
\* not part of the code at hand: their collections are empty here
Sources(n) ==
    {[EmptyTables EXCEPT !["res.users"] = table_of(u),
                         !["res.partner"] = table_of(p),
                         !["product.attribute"] = table_of(a)] :
        <<u, p, a>> \in
            {t \in UserKeySeqs(n) \X {<<>>, <<"a">>} \X KeySeqs(n) :
                Len(t[1]) + Len(t[2]) + Len(t[3]) <= n}}

IdleCalls ==
    /\ raised = "none"
    /\ ret = None
    /\ lastOp = [op |-> "none", model |-> "none", source_id |-> None,
                 dest_id |-> None, emptyBefore |-> FALSE, fileBefore |-> FALSE,
                 loaded |-> EmptyDict]
    /\ savedTable = EmptyDict

IdlePair ==
    /\ pairA = <<>>
    /\ pairB = <<>>

Init ==
    /\ \E s \in Sources(MaxRecs) : IsWorld(start_world(s, EmptyTables, EmptyDict))
    /\ IdlePair
    /\ IdleCalls

(***************************************************************************)
(* The steps of the process.                                               *)
(***************************************************************************)
MigrationInit == pc = "init" /\ Commit(Migration_init(W))

MigrateModelStart == pc = "start" /\ Commit(migrate_model_start(W))

Fetch == pc = "fetch" /\ Commit(migrate_model_fetch(W))

Transform == pc = "transform" /\ Commit(migrate_model_transform(W))

Save == pc = "save" /\ Commit(save_into_destination(W))

SaveBackReference == pc = "backref" /\ Commit(save_back_reference(W))

SaveUpdateWrite == pc = "update_write" /\ Commit(save_update_write(W))

MigrateModelEnd == pc \in {"complete", "failed"} /\ Commit(migrate_model_end(W))

\* the pipeline is run again after it has ended
Rerun == pc = "done" /\ run < MaxRuns /\ Commit(new_run(W, "complete"))

\* an Odoo call raises (a transport error, a refused write)
Fail ==
    /\ InOdooCall(W)
    /\ faults_of(runStatus) + (IF pc = "done" THEN 0 ELSE faults) < MaxFaults
    /\ Commit(raise_exception(W))

\* the process is killed, and the pipeline is run again from the start
Interrupt ==
    /\ pc \notin {"init", "done"}
    /\ run < MaxRuns
    /\ Commit(new_run(W, "interrupted"))

Process ==
    \/ MigrationInit
    \/ MigrateModelStart
    \/ Fetch
    \/ Transform
    \/ Save
    \/ SaveBackReference
    \/ SaveUpdateWrite
    \/ MigrateModelEnd

Next ==
    \/ Process
    \/ Rerun
    \/ Fail
    \/ Interrupt

Spec == Init /\ [][Next]_vars

(***************************************************************************)
(* One run of Migration.run to its end: the process is not stopped, it     *)
(* keeps being scheduled, and Odoo calls may raise.                        *)
(***************************************************************************)
NextRun ==
    \/ Process
    \/ Fail

SpecRun == Init /\ [][NextRun]_vars /\ WF_vars(Process)

(***************************************************************************)
(* A run of main() in which a call of the bulk population of the           *)
(* res.groups mapping may raise.                                           *)
(***************************************************************************)
\* fetch_items or search_by_field of the MappingLoader raises
AssemblyFail ==
    /\ pc = "init"
    /\ faults < MaxFaults
    /\ Commit(Migration_init_raises(W))

NextAssembly ==
    \/ Process
    \/ AssemblyFail

SpecAssembly == Init /\ [][NextAssembly]_vars

(***************************************************************************)
(* A run during which another writer adds records to the source.           *)
(***************************************************************************)
\* as many records as make a page after a short one
MaxGrow == batch_size

InitGrow ==
    /\ \E a \in KeySeqs(MaxRecs) :
           IsWorld(start_world([EmptyTables EXCEPT !["product.attribute"] = table_of(a)],
                               EmptyTables, EmptyDict))
    /\ IdlePair
    /\ IdleCalls

SourceGrow ==
    /\ pc \in {"fetch", "transform", "save", "backref", "update_write"}
    /\ current_model(W) = "product.attribute"
    /\ grown < MaxGrow
    /\ Commit(source_insert(W, "a"))

NextGrow ==
    \/ Process
    \/ SourceGrow

SpecGrow == InitGrow /\ [][NextGrow]_vars

(***************************************************************************)
(* Two pipelines side by side: the same source and destination, different  *)
(* contents of the MappingProvider.  Each is one run, from the point where *)
(* the Migration is built; pairA runs first, then pairB.                   *)
(***************************************************************************)
PairTables == {<<>>, <<"a">>, <<"b">>, <<"a", "b">>}

\* a destination system that holds records already
dest_of(u, a) ==
    [EmptyTables EXCEPT
        !["res.users"] = [i \in 1..Len(u) |-> [id |-> i, key |-> u[i]]],
        !["product.attribute"] = [i \in 1..Len(a) |-> [id |-> i, key |-> a[i]]]]

\* contents of the MappingProvider: right, wrong and partial tables
PairCacheTables == {(1 :> 1), (1 :> 2), (1 :> 1) @@ (2 :> 2)}

PairCaches ==
    {EmptyDict}
    \cup {(m :> t) : m \in {"res.users", "product.attribute"}, t \in PairCacheTables}
    \cup {("res.users" :> t) @@ ("product.attribute" :> t) : t \in PairCacheTables}

IdleWorld == [start_world(EmptyTables, EmptyTables, EmptyDict) EXCEPT !.pc = "done"]

InitPair ==
    /\ \E s \in Sources(MaxPairRecs), u \in PairTables, a \in PairTables,
          c \in PairCaches :
           /\ pairA = [start_world(s, dest_of(u, a), EmptyDict) EXCEPT !.pc = "start"]
           /\ pairB = [start_world(s, dest_of(u, a), c) EXCEPT !.pc = "start"]
    /\ IsWorld(IdleWorld)
    /\ IdleCalls

PairStepA ==
    /\ pairA.pc # "done"
    /\ pairA' = step(pairA)
    /\ UNCHANGED <<pairB, systemVars, cache, files, processVars, historyVars, callVars>>

PairStepB ==
    /\ pairA.pc = "done"
    /\ pairB.pc # "done"
    /\ pairB' = step(pairB)
    /\ UNCHANGED <<pairA, systemVars, cache, files, processVars, historyVars, callVars>>

NextPair ==
    \/ PairStepA
    \/ PairStepB

SpecPair == InitPair /\ [][NextPair]_vars

(***************************************************************************)
(* Two processes of the pipeline at the same time on one source and one    *)
(* destination (src, dst).  pairA and pairB hold what each process has of  *)
(* its own; a step of a process is one step of step(), made on the systems *)
(* as they are at that moment.                                             *)
(***************************************************************************)
\* the source holds product.attribute records, no two of the same name (the
\* destination has no constraint on the name of a product.attribute; on the
\* login of a res.users it has one)
InitConcurrent ==
    /\ \E a \in UserKeySeqs(MaxPairRecs) :
           LET s == [EmptyTables EXCEPT !["product.attribute"] = table_of(a)] IN
           /\ IsWorld([IdleWorld EXCEPT !.src = s])
           /\ pairA = [start_world(s, EmptyTables, EmptyDict) EXCEPT !.pc = "start"]
           /\ pairB = [start_world(s, EmptyTables, EmptyDict) EXCEPT !.pc = "start"]
    /\ IdleCalls

\* the process with the systems as they are now
on_systems(w) == [w EXCEPT !.src = src, !.dst = dst]

ConcurrentStepA ==
    /\ pairA.pc # "done"
    /\ pairA' = step(on_systems(pairA))
    /\ src' = pairA'.src
    /\ dst' = pairA'.dst
    /\ UNCHANGED <<pairB, cache, files, processVars, historyVars, callVars>>

ConcurrentStepB ==
    /\ pairB.pc # "done"
    /\ pairB' = step(on_systems(pairB))
    /\ src' = pairB'.src
    /\ dst' = pairB'.dst
    /\ UNCHANGED <<pairA, cache, files, processVars, historyVars, callVars>>

NextConcurrent ==
    \/ ConcurrentStepA
    \/ ConcurrentStepB

SpecConcurrent == InitConcurrent /\ [][NextConcurrent]_vars

(***************************************************************************)
(* The MappingProvider driven call by call.                                *)
(***************************************************************************)
MapModels == {"res.groups", "res.users"}

\* source identifiers and destination identifiers of the calls
MapSrcIds == {1, 2}

MapDstIds == 1..MaxMapId

NoOp ==
    [op |-> "none", model |-> "none", source_id |-> None, dest_id |-> None,
     emptyBefore |-> FALSE, fileBefore |-> FALSE, loaded |-> EmptyDict]

\* everything but the MappingProvider and its files
restVars ==
    <<src, dst, run, pc, modelIdx, offset, records, recIdx, transformed_records,
      opIdx, new_id, dst_record, dst0, opLog, pageLog, visited, failure,
      faults, runStatus, grown, pairA, pairB, registered, called>>

InitMapping ==
    /\ IsWorld(IdleWorld)
    /\ IdlePair
    /\ IdleCalls

\* MappingProvider(...): a new store, as a new process builds it
NewProvider ==
    /\ cache' = EmptyDict
    /\ raised' = "none"
    /\ ret' = None
    /\ lastOp' = [NoOp EXCEPT !.op = "init"]
    /\ UNCHANGED <<files, savedTable, restVars>>

\* the source ids set_mapping is called with: two of one model, to have two
\* entries in a table, and one of the other
SetSrcIds(m) == IF m = "res.groups" THEN MapSrcIds ELSE {1}

SetMapping ==
    \E m \in MapModels, d \in MapDstIds : \E s \in SetSrcIds(m) :
        /\ cache' = set_mapping(cache, m, s, d)
        /\ raised' = "none"
        /\ ret' = None
        /\ lastOp' = [NoOp EXCEPT !.op = "set", !.model = m, !.source_id = s,
                                  !.dest_id = d]
        /\ UNCHANGED <<files, savedTable, restVars>>

GetMapping ==
    \E m \in MapModels, s \in MapSrcIds :
        LET r == get_mapping(cache, m, s) IN
        /\ cache' = r.cache
        /\ ret' = r.result
        /\ raised' = "none"
        /\ lastOp' = [NoOp EXCEPT !.op = "get", !.model = m, !.source_id = s,
                                  !.emptyBefore = (cache = EmptyDict)]
        /\ UNCHANGED <<files, savedTable, restVars>>

SaveMappings ==
    \E m \in MapModels :
        LET r == save_mappings(cache, files, m) IN
        /\ files' = r.files
        /\ raised' = r.raised
        /\ ret' = None
        /\ lastOp' = [NoOp EXCEPT !.op = "save", !.model = m]
        /\ savedTable' = IF r.raised = "none"
                         THEN (m :> cache[m]) @@ savedTable
                         ELSE (m :> EmptyDict) @@ savedTable
        /\ UNCHANGED <<cache, restVars>>

LoadMappingsFromFiles ==
    \E m \in MapModels :
        LET r == load_mappings_from_files(cache, files, m) IN
        /\ cache' = r.cache
        /\ raised' = r.raised
        /\ ret' = None
        /\ lastOp' = [op |-> "load", model |-> m, source_id |-> None,
                      dest_id |-> None,
                      emptyBefore |-> (cache = EmptyDict),
                      fileBefore |-> path_exists(files, m),
                      loaded |-> EmptyDict]
        /\ UNCHANGED <<files, savedTable, restVars>>

NextMapping ==
    \/ NewProvider
    \/ SetMapping
    \/ GetMapping
    \/ SaveMappings
    \/ LoadMappingsFromFiles

SpecMapping == InitMapping /\ [][NextMapping]_vars

(***************************************************************************)
(* The MappingProvider of a process whose source and destination hold      *)
(* res.groups records: load_mappings_from_database, then the calls of the  *)
(* handlers.                                                               *)
(***************************************************************************)
\* names of the res.groups records of the destination, in id order
BulkDestKeys == PairTables \cup {<<"b", "a">>}

InitBulk ==
    /\ \E s \in KeySeqs(MaxPairRecs), d \in BulkDestKeys :
           IsWorld([IdleWorld EXCEPT
                       !.src = [EmptyTables EXCEPT !["res.groups"] = table_of(s)],
                       !.dst = [EmptyTables EXCEPT !["res.groups"] =
                                   [i \in 1..Len(d) |-> [id |-> i, key |-> d[i]]]]])
    /\ IdlePair
    /\ IdleCalls

\* self.mapping_provider.load_mappings_from_database(model_name, "name")
LoadMappingsFromDatabase ==
    \E m \in MapModels :
        LET r == load_mappings_from_database(cache, src, dst, m) IN
        /\ cache' = r.cache
        /\ raised' = "none"
        /\ ret' = None
        /\ lastOp' = [NoOp EXCEPT !.op = "bulk", !.model = m, !.loaded = r.loaded]
        /\ UNCHANGED <<files, savedTable, restVars>>

NextBulk ==
    \/ LoadMappingsFromDatabase
    \/ GetMapping
    \/ SetMapping

SpecBulk == InitBulk /\ [][NextBulk]_vars

(***************************************************************************)
(* load_mappings_from_database("res.groups", "name") turn by turn of the   *)
(* loop of the MappingLoader.                                              *)
(***************************************************************************)
InitLoader ==
    /\ \E s \in KeySeqs(MaxGroups) :
           IsWorld([IdleWorld EXCEPT
                       !.src = [EmptyTables EXCEPT !["res.groups"] = table_of(s)],
                       !.pc = "init"])
    /\ IdlePair
    /\ IdleCalls

\* the call up to the while: a new MappingLoader, its cache[model_name] = {},
\* eof = False, offset = 0
LoaderStart ==
    /\ pc = "init"
    /\ pc' = "loading"
    /\ offset' = 0
    /\ pageLog' = <<>>
    /\ visited' = <<>>
    /\ lastOp' = [NoOp EXCEPT !.op = "bulk", !.model = "res.groups",
                              !.loaded = ("res.groups" :> EmptyDict)]
    /\ UNCHANGED <<src, dst, cache, files, run, modelIdx, records, recIdx,
                   transformed_records, opIdx, new_id, dst_record, dst0, opLog,
                   failure, faults, runStatus, grown, registered, called,
                   pairVars, raised, ret, savedTable>>

\* one turn of the while loop; the call returns after the turn that set eof
LoaderTurn ==
    /\ pc = "loading"
    /\ LET t == loader_turn(src["res.groups"], offset, lastOp.loaded["res.groups"]) IN
        /\ pageLog' = Append(pageLog, [offset |-> offset, n |-> Len(t.src_items)])
        /\ visited' = IF t.eof THEN visited
                      ELSE visited \o [i \in 1..Len(t.src_items) |-> t.src_items[i].id]
        /\ offset' = t.offset
        /\ lastOp' = [lastOp EXCEPT !.loaded = ("res.groups" :> t.cache_model)]
        /\ pc' = IF t.eof THEN "loaded" ELSE "loading"
    /\ UNCHANGED <<src, dst, cache, files, run, modelIdx, records, recIdx,
                   transformed_records, opIdx, new_id, dst_record, dst0, opLog,
                   failure, faults, runStatus, grown, registered, called,
                   pairVars, raised, ret, savedTable>>

NextLoader ==
    \/ LoaderStart
    \/ LoaderTurn

\* the process is scheduled until the call returns
SpecLoader == InitLoader /\ [][NextLoader]_vars /\ WF_vars(NextLoader)

(***************************************************************************)
(* Runs of a Migration whose models_handlers lacks the handler of one      *)
(* scheduled model.                                                        *)
(***************************************************************************)
\* models_handlers with one entry removed, or whole
Registries ==
    {DOMAIN models_handlers}
    \cup {DOMAIN models_handlers \ {m} : m \in DOMAIN models_handlers}

InitUnregistered ==
    /\ \E s \in Sources(MaxRecs), r \in Registries :
           IsWorld([start_world(s, EmptyTables, EmptyDict) EXCEPT !.registered = r])
    /\ IdlePair
    /\ IdleCalls

NextUnregistered ==
    \/ Process
    \/ Rerun

SpecUnregistered == InitUnregistered /\ [][NextUnregistered]_vars

(***************************************************************************)
(* Runs against a destination that holds records already and that another  *)
(* user of the destination changes meanwhile.                              *)
(***************************************************************************)
\* the record at position i of a destination table is deleted
destination_unlink(w, m, i) ==
    [w EXCEPT !.dst[m] = odoo_unlink(w.dst[m], w.dst[m][i].id)]

InitStale ==
    /\ \E s \in Sources(MaxPairRecs), u \in PairTables, a \in PairTables :
           IsWorld(start_world(s, dest_of(u, a), EmptyDict))
    /\ IdlePair
    /\ IdleCalls

\* another user deletes a record of the destination.  Odoo never gives the
\* id of a deleted record to a new one: the newest record of a table is
\* kept here, so that the id odoo_create takes next is new
DestinationUnlink ==
    /\ pc \notin {"init", "done"}
    /\ \E m \in {"res.users", "product.attribute"} :
           \E i \in 1..(Len(dst[m]) - 1) : Commit(destination_unlink(W, m, i))

NextStale ==
    \/ Process
    \/ Rerun
    \/ DestinationUnlink

SpecStale == InitStale /\ [][NextStale]_vars

(***************************************************************************)
(* The handlers of the attribute lines and of the template attribute       *)
(* values (product_template_attribute_line.py,                             *)
(* product_template_attribute_value.py), driven over one page of records:  *)
(* apply_transformations on every record, then save_into_destination.      *)
(***************************************************************************)
LineHandlers ==
    <<"ProductTemplateAttributeLineHandler", "ProductTemplateAttributeValueHandler">>

\* self.model_name of the two handlers
line_model_name(h) ==
    IF h = "ProductTemplateAttributeLineHandler"
    THEN "product.attribute.line"
    ELSE "product.template.attribute.value"

\* a destination table whose records carry the given names
named_table(keys) ==
    [i \in 1..Len(keys) |->
        [id |-> i, key |-> keys[i], attribute_id |-> None, product_tmpl_id |-> None]]

\* find_dst_attribute: the ids model.search(domain) returns; attribute_id[0]
\* of an empty result is an IndexError
find_dst_attribute(d, record) ==
    search_by_key(d["product.attribute"], record.attribute)

\* find_dst_product_tmpl, likewise
find_dst_product_tmpl(d, record) ==
    search_by_key(d["product.template"], record.product_tmpl)

\* dst_template_attribute_line_exists, called once both lookups succeeded:
\* a line of the destination with that attribute and that template
dst_template_attribute_line_exists(d, record) ==
    LET attribute == find_dst_attribute(d, record)
        product_tmpl == find_dst_product_tmpl(d, record)
        table == d["product.template.attribute.line"]
    IN \E i \in 1..Len(table) :
           /\ table[i].attribute_id = attribute[1]
           /\ table[i].product_tmpl_id = product_tmpl[1]

\* ProductTemplateAttributeLineHandler.apply_transformations
line_apply_transformations(d, record) ==
    LET attribute == find_dst_attribute(d, record)
        product_tmpl == find_dst_product_tmpl(d, record)
    IN IF attribute = <<>> \/ product_tmpl = <<>>
       THEN [raised |-> TRUE, ops |-> <<>>]
       ELSE [raised |-> FALSE,
             ops |-> <<[action |-> IF dst_template_attribute_line_exists(d, record)
                                   THEN "update" ELSE "create",
                        model |-> "product.template.attribute.line",
                        old_id |-> record.id,
                        attribute_id |-> attribute[1],
                        product_tmpl_id |-> product_tmpl[1],
                        target |-> <<>>]>>]

\* the update branch of the line handler's save_into_destination up to
\* "if dst_record is not None": browse of the back-reference, or the search
\* of the destination lines by name = src_record.old_id
line_resolve_target(d, src_record) ==
    LET table == d["product.template.attribute.line"] IN
    IF src_record.new_id # None /\ src_record.new_id > 0
    THEN IF id_exists(table, src_record.new_id)
         THEN [raised |-> FALSE, id |-> src_record.new_id]
         ELSE [raised |-> TRUE, id |-> None]
    ELSE LET result == search_by_key(table, src_record.old_id)
         IN IF Len(result) > 0
            THEN [raised |-> FALSE, id |-> result[1]]
            ELSE [raised |-> FALSE, id |-> None]

\* src_record.write({'new_id': id})
line_write_new_id(s, m, old_id, id) ==
    [s EXCEPT ![m] = [i \in 1..Len(s[m]) |->
                         IF s[m][i].id = old_id
                         THEN [s[m][i] EXCEPT !.new_id = id]
                         ELSE s[m][i]]]

\* the id model.create gives the new record
line_next_id(table) == IF table = <<>> THEN 1 ELSE table[Len(table)].id + 1

\* one turn of the loop of the line handler's save_into_destination
line_save_into_destination(s, d, op) ==
    LET m == "product.template.attribute.line"
        src_record ==
            s["product.attribute.line"][index_of(s["product.attribute.line"], op.old_id)]
    IN IF op.action = "create"
       THEN [raised |-> FALSE, target |-> line_next_id(d[m]), wrote |-> TRUE,
             src |-> line_write_new_id(s, "product.attribute.line", op.old_id,
                                       line_next_id(d[m])),
             dst |-> [d EXCEPT ![m] =
                         Append(d[m], [id |-> line_next_id(d[m]), key |-> None,
                                       attribute_id |-> op.attribute_id,
                                       product_tmpl_id |-> op.product_tmpl_id])]]
       ELSE LET t == line_resolve_target(d, src_record)
            IN IF t.raised \/ t.id = None
               THEN [raised |-> t.raised, target |-> None, wrote |-> FALSE,
                     src |-> s, dst |-> d]
               ELSE [raised |-> FALSE, target |-> t.id, wrote |-> TRUE,
                     src |-> line_write_new_id(s, "product.attribute.line",
                                               op.old_id, t.id),
                     dst |-> [d EXCEPT ![m][index_of(d[m], t.id)] =
                                 [@ EXCEPT !.attribute_id = op.attribute_id,
                                           !.product_tmpl_id = op.product_tmpl_id]]]

\* template_attribute_value_exists: a record of the handler's own model
\* with the name of the source record
template_attribute_value_exists(d, src_record) ==
    Len(search_by_key(d["product.template.attribute.value"], src_record.key)) > 0

\* find_dst_attribute_value: model.search(domain) without limit on
\* product.attribute.value, then browse of the list of ids
find_dst_attribute_value(d, src_record) ==
    LET table == d["product.attribute.value"]
        hit(r) == r.key = src_record.key
        found == SelectSeq(table, hit)
    IN [i \in 1..Len(found) |-> found[i].id]

\* ProductTemplateAttributeValueHandler.apply_transformations
value_apply_transformations(d, src_record) ==
    LET dst_attribute == find_dst_attribute(d, src_record)
    IN IF dst_attribute = <<>>
       THEN [raised |-> TRUE, ops |-> <<>>]
       ELSE IF template_attribute_value_exists(d, src_record)
       THEN [raised |-> FALSE,
             ops |-> <<[action |-> "update", model |-> "product.attribute.value",
                        old_id |-> src_record.id, key |-> src_record.key,
                        attribute_id |-> dst_attribute[1],
                        target |-> find_dst_attribute_value(d, src_record)]>>]
       ELSE [raised |-> FALSE,
             ops |-> <<[action |-> "create",
                        model |-> "product.template.attribute.value",
                        old_id |-> src_record.id, key |-> src_record.key,
                        attribute_id |-> dst_attribute[1],
                        target |-> <<>>]>>]

\* one turn of the loop of the value handler's save_into_destination; the
\* target of an update is the recordset transform put into the operation:
\* the id of an empty recordset is None and its write reaches no record
value_save_into_destination(s, d, op) ==
    LET sm == "product.template.attribute.value"
        m == op.model
    IN IF op.action = "create"
       THEN [raised |-> FALSE, target |-> line_next_id(d[m]), wrote |-> TRUE,
             src |-> line_write_new_id(s, sm, op.old_id, line_next_id(d[m])),
             dst |-> [d EXCEPT ![m] =
                         Append(d[m], [id |-> line_next_id(d[m]), key |-> op.key,
                                       attribute_id |-> op.attribute_id,
                                       product_tmpl_id |-> None])]]
       ELSE [raised |-> FALSE,
             target |-> IF op.target = <<>> THEN None ELSE op.target[1],
             wrote |-> op.target # <<>>,
             src |-> line_write_new_id(s, sm, op.old_id,
                                       IF op.target = <<>> THEN None ELSE op.target[1]),
             dst |-> [d EXCEPT ![m] =
                         [i \in 1..Len(d[m]) |->
                             IF \E j \in 1..Len(op.target) : op.target[j] = d[m][i].id
                             THEN [d[m][i] EXCEPT !.key = op.key,
                                                  !.attribute_id = op.attribute_id]
                             ELSE d[m][i]]]]

\* the source table of the handler's model, no record migrated yet
line_source(h, t) ==
    (line_model_name(h) :>
        [i \in 1..Len(t) |->
            IF h = "ProductTemplateAttributeLineHandler"
            THEN [id |-> i, attribute |-> t[i].attribute,
                  product_tmpl |-> t[i].product_tmpl, old_id |-> t[i].old_id,
                  new_id |-> None]
            ELSE [id |-> i, key |-> t[i].key, attribute |-> t[i].attribute,
                  new_id |-> None]])

\* the handler about to transform the first page of its source table
line_world(h, s, d) ==
    [IdleWorld EXCEPT
        !.src = s, !.dst = d, !.dst0 = d, !.pc = "transform", !.modelIdx = h,
        !.records = fetch_items(s[line_model_name(LineHandlers[h])], 0, batch_size),
        !.recIdx = 1, !.transformed_records = <<>>, !.opIdx = 1,
        !.dst_record = None, !.opLog = <<>>]

\* the pages and destinations the handlers are driven on: lines with their
\* attribute and template by name and their old_id, values with their name
\* and attribute; a destination that holds the attributes and templates and
\* at most one line, or values under some names
InitLine ==
    LET LineSourceTables ==
            UNION {[1..k -> [attribute : Keys, product_tmpl : Keys,
                             old_id : {None, 1}]] : k \in 1..MaxPairRecs}
        LineDestTables ==
            UNION {[1..k -> [attribute_id : 1..2, product_tmpl_id : 1..2,
                             key : {None, 1}]] : k \in 0..1}
        ValueSourceTables ==
            UNION {[1..k -> [key : Keys, attribute : Keys]] : k \in 1..MaxPairRecs}
        NamedTables == {<<"a">>, <<"a", "b">>}
    IN
    /\ \/ \E t \in LineSourceTables, a \in NamedTables, p \in NamedTables,
             l \in LineDestTables :
              IsWorld(line_world(1, line_source(LineHandlers[1], t),
                  [x \in {"product.attribute", "product.template",
                          "product.template.attribute.line"} |->
                      IF x = "product.attribute" THEN named_table(a)
                      ELSE IF x = "product.template" THEN named_table(p)
                      ELSE [i \in 1..Len(l) |->
                               [id |-> i, key |-> l[i].key,
                                attribute_id |-> l[i].attribute_id,
                                product_tmpl_id |-> l[i].product_tmpl_id]]]))
       \/ \E t \in ValueSourceTables, a \in NamedTables, v \in PairTables,
             tv \in PairTables :
              IsWorld(line_world(2, line_source(LineHandlers[2], t),
                  [x \in {"product.attribute", "product.attribute.value",
                          "product.template.attribute.value"} |->
                      IF x = "product.attribute" THEN named_table(a)
                      ELSE IF x = "product.attribute.value" THEN named_table(v)
                      ELSE named_table(tv)]))
    /\ IdlePair
    /\ IdleCalls

\* handler.apply_transformations(record) for the next record of the page
HandlerTransform ==
    /\ pc = "transform"
    /\ LET r == IF modelIdx = 1
                THEN line_apply_transformations(dst, records[recIdx])
                ELSE value_apply_transformations(dst, records[recIdx])
       IN /\ transformed_records' = transformed_records \o r.ops
          /\ recIdx' = recIdx + 1
          /\ pc' = IF r.raised THEN "failed"
                   ELSE IF recIdx = Len(records) THEN "save" ELSE "transform"
    /\ UNCHANGED <<src, dst, cache, files, run, modelIdx, offset, records,
                   opIdx, new_id, dst_record, dst0, opLog, pageLog, visited,
                   failure, faults, runStatus, grown, registered, called,
                   pairVars, callVars>>

\* one turn of the loop of handler.save_into_destination(transformed_records)
HandlerSave ==
    /\ pc = "save"
    /\ LET op == transformed_records[opIdx]
           r == IF modelIdx = 1
                THEN line_save_into_destination(src, dst, op)
                ELSE value_save_into_destination(src, dst, op)
       IN /\ src' = r.src
          /\ dst' = r.dst
          /\ dst_record' = r.target
          /\ opLog' = Append(opLog, [action |-> op.action, model |-> op.model,
                                     old_id |-> op.old_id, dst_id |-> r.target,
                                     wrote |-> r.wrote])
          /\ opIdx' = opIdx + 1
          /\ pc' = IF r.raised THEN "failed"
                   ELSE IF opIdx = Len(transformed_records) THEN "done" ELSE "save"
    /\ UNCHANGED <<cache, files, run, modelIdx, offset, records, recIdx,
                   transformed_records, new_id, dst0, pageLog, visited,
                   failure, faults, runStatus, grown, registered, called,
                   pairVars, callVars>>

NextLine ==
    \/ HandlerTransform
    \/ HandlerSave

SpecLine == InitLine /\ [][NextLine]_vars

(***************************************************************************)
(* find_dest_group_id of the handlers, called for the groups of the source *)
(* against a MappingProvider that set_mapping calls fill.                   *)
(***************************************************************************)
\* find_dest_group_id(src_group): in res_users.py and product_attribute.py
\* get_mapping first and, without a result, the search of the destination
\* by name followed by set_mapping; in res_partner.py and in the handlers
\* of the attribute lines and template attribute values the search alone
find_dest_group_id(h, c, odoo_dst, src_group) ==
    LET resp == search_by_key(odoo_dst["res.groups"], src_group.key)
        g == get_mapping(c, "res.groups", src_group.id)
    IN IF h \notin {"ResUsersHandler", "ProductAttributeHandler"}
       THEN [cache |-> c, queried |-> TRUE,
             result |-> IF Len(resp) > 0 THEN resp[1] ELSE None]
       ELSE IF g.result # None
       THEN [cache |-> g.cache, queried |-> FALSE, result |-> g.result]
       ELSE IF Len(resp) > 0
       THEN [cache |-> set_mapping(g.cache, "res.groups", src_group.id, resp[1]),
             queried |-> TRUE, result |-> resp[1]]
       ELSE [cache |-> g.cache, queried |-> TRUE, result |-> None]

\* handler.find_dest_group_id(src_group) for a group of the source
FindDestGroupId ==
    \E h \in {"ResUsersHandler", "ResPartnerHandler", "ProductAttributeHandler"}
               \cup {LineHandlers[i] : i \in 1..Len(LineHandlers)} :
        \E i \in 1..Len(src["res.groups"]) :
            LET r == find_dest_group_id(h, cache, dst, src["res.groups"][i]) IN
            /\ cache' = r.cache
            /\ ret' = r.result
            /\ raised' = "none"
            /\ lastOp' = [op |-> "find", model |-> "res.groups",
                          source_id |-> src["res.groups"][i].id,
                          dest_id |-> None, emptyBefore |-> FALSE,
                          fileBefore |-> FALSE, loaded |-> EmptyDict,
                          handler |-> h, queried |-> r.queried]
            /\ UNCHANGED <<files, savedTable, restVars>>

NextGroups ==
    \/ FindDestGroupId
    \/ SetMapping

SpecGroups == InitBulk /\ [][NextGroups]_vars

(***************************************************************************)
(* Properties.                                                             *)
(***************************************************************************)
\* positions of opLog written by run r for the scheduled model m
Entries(log, r, m) == {i \in 1..Len(log) : log[i].run = r /\ log[i].model = m}

CreatesOf(log) == {i \in 1..Len(log) : log[i].action = "create"}

UpdatesOf(log) == {i \in 1..Len(log) : log[i].action = "update"}

\* run r ended by itself and none of its Odoo calls raised
CleanRun(r) ==
    /\ r <= Len(runStatus)
    /\ runStatus[r].status = "complete"
    /\ runStatus[r].faults = 0

Last(s) == s[Len(s)]

SaveSteps == {"save", "backref", "update_write"}

\* C1: when the pipeline has run to its end on an empty destination with no
\* call raising, no later run of it on the same source creates a record:
\* every create of the history belongs to the first run, and the destination
\* holds as many records at the end of a later run as at the end of the first.
C1_SecondRunCreatesNothing ==
    CleanRun(1) =>
        /\ \A i \in CreatesOf(opLog) : opLog[i].run = 1
        /\ \A r \in 2..Len(runStatus) :
               runStatus[r].dst_count = runStatus[1].dst_count

\* two whole runs, the second of which found records to update
C1_Witness ==
    /\ CleanRun(1)
    /\ CleanRun(2)
    /\ runStatus[1].dst_count >= 2
    /\ \E i \in UpdatesOf(opLog) : opLog[i].run = 2

\* C2: an operation applied while the destination holds a record with the
\* source record's natural key is an update, never a create (whatever the
\* page holds, two records with the same key included).
C2_CreateOnlyWhenAbsent ==
    \A i \in CreatesOf(opLog) : ~opLog[i].existed

\* the creates and updates a pipeline issued, without the ids it got
Issued(log) ==
    [i \in 1..Len(log) |->
        [model |-> log[i].model, action |-> log[i].action, old_id |-> log[i].old_id]]

PairDone == pairA # <<>> /\ pairA.pc = "done" /\ pairB.pc = "done"

\* the two runs issued the same creates and updates in the same order and
\* left the same destination
SameOperations ==
    /\ Issued(pairA.opLog) = Issued(pairB.opLog)
    /\ pairA.dst = pairB.dst

\* C3: two runs from the same source and destination that differ in the
\* contents of the MappingProvider (empty, stale or full) issue the same
\* creates and updates in the same order, and neither creates a duplicate:
\* no create is issued while the destination holds a record with that key.
C3_MappingCacheIndependence ==
    PairDone =>
        /\ SameOperations
        /\ \A p \in {pairA, pairB} : \A i \in CreatesOf(p.opLog) :
               ~p.opLog[i].existed

\* C4: once a create was issued for a source record, whatever happens next
\* (the process is killed anywhere, the pipeline is run again), every later
\* operation issued for that record is an update.
C4_ReplayIsUpdateOnly ==
    \A i, j \in 1..Len(opLog) :
        (/\ i < j
         /\ opLog[i].model = opLog[j].model
         /\ opLog[i].old_id = opLog[j].old_id
         /\ opLog[i].action = "create") => opLog[j].action = "update"

\* the first run was killed between dst_model.create and the write of the
\* back-reference; the second run is about to apply the operation of that
\* record, which has no back-reference
C4_Witness ==
    /\ run = 2
    /\ runStatus[1].status = "interrupted"
    /\ pc = "save"
    /\ LET op == transformed_records[opIdx]
           table == src[current_model(W)]
       IN /\ op.action = "update"
          /\ table[index_of(table, op.old_id)].new_id = None
          /\ \E i \in CreatesOf(opLog) :
                 /\ opLog[i].run = 1
                 /\ opLog[i].model = current_model(W)
                 /\ opLog[i].old_id = op.old_id

\* the source of the example: two users with distinct logins, nothing else
TwoUsers ==
    /\ Len(src["res.users"]) = 2
    /\ src["res.users"][1].key # src["res.users"][2].key
    /\ \A m \in AllModels \ {"res.users"} : src[m] = <<>>

\* what the two runs of the example issue, and the back-references they leave
TwoCreatesThenTwoUpdates ==
    /\ Cardinality(Entries(opLog, 1, "res.users")) = 2
    /\ Entries(opLog, 1, "res.users") \subseteq CreatesOf(opLog)
    /\ \A i \in Entries(opLog, 1, "res.users") :
           /\ id_exists(dst["res.users"], opLog[i].dst_id)
           /\ src["res.users"][opLog[i].old_id].new_id = opLog[i].dst_id
    /\ {opLog[i].old_id : i \in Entries(opLog, 1, "res.users")} = {1, 2}
    /\ runStatus[1].dst_count = 2
    /\ CleanRun(2) =>
           /\ Cardinality(Entries(opLog, 2, "res.users")) = 2
           /\ Entries(opLog, 2, "res.users") \subseteq UpdatesOf(opLog)
           /\ {opLog[i].old_id : i \in Entries(opLog, 2, "res.users")} = {1, 2}
           /\ runStatus[2].dst_count = 2

\* C5: with two users of distinct logins and an empty destination, the first
\* run issues exactly two creates and stores two Correlations, on the source
\* records and in the MappingProvider; the second run issues exactly two
\* updates and no create, and the destination keeps its two records.
C5_TwoUsersExample ==
    (TwoUsers /\ CleanRun(1)) =>
        /\ TwoCreatesThenTwoUpdates
        /\ (run = 1 /\ pc = "done") =>
               \A i \in Entries(opLog, 1, "res.users") :
                   get_mapping(cache, "res.users", opLog[i].old_id).result
                       = opLog[i].dst_id

\* C6: a table saved by save_mappings and loaded by load_mappings_from_files
\* into a store whose cache is empty is the table that was saved.
C6_SaveLoadRoundTrip ==
    (/\ lastOp.op = "load"
     /\ lastOp.emptyBefore
     /\ lastOp.model \in DOMAIN savedTable) =>
        /\ raised = "none"
        /\ cache[lastOp.model] = savedTable[lastOp.model]

\* C7: loading the table of a model that has no file raises nothing and
\* gives the empty table; loading one that has a file gives its entries.
C7_MissingFileIsEmptyTable ==
    lastOp.op = "load" =>
        /\ ~lastOp.fileBefore => raised = "none"
        /\ (lastOp.fileBefore /\ lastOp.emptyBefore /\ lastOp.model \in DOMAIN savedTable) =>
               cache[lastOp.model] = savedTable[lastOp.model]

\* ceil(n / p)
CeilDiv(n, p) == (n + p - 1) \div p

\* C8: when the loop of migrate_model has ended by itself on a collection of
\* N records, it made ceil(N / batch_size) + 1 fetches, at the offsets 0,
\* batch_size, 2 * batch_size, ..., only the last of which was empty, and it
\* passed every record of the collection to apply_transformations once.
C8_PaginationComplete ==
    pc = "complete" =>
        LET N == Len(src[current_model(W)])
            k == CeilDiv(N, batch_size)
        IN /\ Len(pageLog) = k + 1
           /\ \A i \in 1..Len(pageLog) : pageLog[i].offset = (i - 1) * batch_size
           /\ \A i \in 1..k : pageLog[i].n > 0
           /\ Last(pageLog).n = 0
           /\ visited = [i \in 1..N |-> i]

\* three records and a page of two: a full page, a short page, the empty one
C8_Witness ==
    /\ pc = "complete"
    /\ Len(src[current_model(W)]) > batch_size
    /\ Len(src[current_model(W)]) % batch_size # 0
    /\ Len(pageLog) >= 3

RECURSIVE SumN(_)
SumN(pages) == IF pages = <<>> THEN 0 ELSE pages[1].n + SumN(Tail(pages))

\* C9: the loop of migrate_model ends when and only when a fetch returns no
\* record: it has ended only if the last page was empty and no page before
\* it was, a page that is short but not empty is transformed and applied
\* like any other, and the loop fetches again after it.
C9_StopsOnlyOnEmptyPage ==
    /\ pc = "complete" =>
           /\ Last(pageLog).n = 0
           /\ \A i \in 1..(Len(pageLog) - 1) : pageLog[i].n > 0
    /\ (pageLog # <<>> /\ Last(pageLog).n = 0) => pc \in {"complete", "start", "done"}
    /\ pc \in {"fetch", "complete"} =>
           /\ Len(visited) = SumN(pageLog)
           /\ Cardinality(Entries(opLog, run, current_model(W))) = Len(visited)

\* a page that is short but not empty was followed by a page with records,
\* and the loop went on to the empty page
C9_Witness ==
    /\ pc = "complete"
    /\ \E i, j \in 1..Len(pageLog) :
           /\ i < j
           /\ pageLog[i].n > 0
           /\ pageLog[i].n < batch_size
           /\ pageLog[j].n > 0

\* migrate_model has returned for the model it was called for last
Returned == pc = "done" \/ (pc = "start" /\ modelIdx > 1)

ReturnedModel ==
    IF pc = "done" THEN Last(models_to_migrate) ELSE models_to_migrate[modelIdx - 1]

\* C10: when applying one operation of a page raised, the other operations
\* of the page and the later pages are still applied: by the time
\* migrate_model returns, an operation was issued for every record of the
\* model but the one that failed.
C10_FailureLeavesBatchGoing ==
    (Returned /\ failure.pc \in SaveSteps) =>
        Cardinality({opLog[i].old_id : i \in Entries(opLog, run, ReturnedModel)})
            >= Len(src[ReturnedModel]) - 1

\* the first k models of the schedule
Scheduled(k) == SubSeq(models_to_migrate, 1, k)

\* C11: an error raised while one entity type is migrated (a fetch, search,
\* create or write that raises, a transform that raises) ends the migration
\* of that entity type only: migrate_model is called for the models of the
\* schedule in order, none left out, and the run ends after the last.
C11_FailureAbortsOnlyItsEntityType ==
    /\ pc = "init" => called = <<>>
    /\ pc = "start" => called = Scheduled(modelIdx - 1)
    /\ pc \notin {"init", "start", "done"} => called = Scheduled(modelIdx)
    /\ pc = "done" => called = models_to_migrate

\* a call raised while res.users was migrated, no operation was issued for
\* its records, and the run went on to issue the operations of
\* product.attribute
C11_Witness ==
    /\ pc = "done"
    /\ faults >= 1
    /\ src["res.users"] # <<>>
    /\ Entries(opLog, run, "res.users") = {}
    /\ Entries(opLog, run, "product.attribute") # {}
    /\ called = models_to_migrate

\* C12: a scheduled model that has no handler in models_handlers is skipped:
\* no fetch is made and no create or update is issued for it, and the run
\* goes on with the models after it up to the last.
C12_NoHandlerSkipsEntityType ==
    /\ \A i \in 1..Len(opLog) : opLog[i].model \in registered
    /\ (pc \notin {"init", "start", "done"} /\ current_model(W) \notin registered) =>
           /\ pc = "failed"
           /\ pageLog = <<>>
           /\ visited = <<>>
    /\ pc = "done" => called = models_to_migrate

\* res.users has records and no handler: the run is over, nothing was
\* written for res.users and product.attribute was migrated
C12_Witness ==
    /\ pc = "done"
    /\ "res.users" \notin registered
    /\ src["res.users"] # <<>>
    /\ dst["res.users"] = <<>>
    /\ Entries(opLog, run, "product.attribute") # {}

\* C13: an update whose target is found neither through the back-reference
\* of the source record nor through the search by natural key raises
\* ResourceNotFound: save_into_destination never goes past such an
\* operation as if it had been applied.
C13_UnresolvedUpdateRaises ==
    \A i \in UpdatesOf(opLog) : opLog[i].dst_id # None

\* the create logged last was issued by the current migrate_model call and
\* the statement after it, the write of the back-reference, is done
CreateCompleted ==
    /\ opLog # <<>>
    /\ Last(opLog).action = "create"
    /\ Last(opLog).run = run
    /\ Last(opLog).model = current_model(W)
    /\ pc \in {"save", "fetch"}

\* the model name the handler of the operation logged last works with
LastModelName == handler_model_name(models_handlers[Last(opLog).model])

\* the back-reference of the source record is the id of the record created
BackReferenceStored ==
    CreateCompleted =>
        LET table == src[LastModelName]
        IN table[index_of(table, Last(opLog).old_id)].new_id = Last(opLog).dst_id

\* C14: after a create of destination record d for source record s of
\* entity type t, the Correlation is stored in both places: the
\* back-reference of s is d, and get_mapping(t, s) returns d.
C14_CorrelationStoredTwice ==
    /\ BackReferenceStored
    /\ CreateCompleted =>
           get_mapping(cache, LastModelName, Last(opLog).old_id).result
               = Last(opLog).dst_id

\* the source record of the operation save_into_destination is at, in the
\* source system s
OperationRecord(s) ==
    LET op == transformed_records[opIdx]
        m == handler_model_name(handler_of(W))
    IN s[m][index_of(s[m], op.old_id)]

\* the step that resolves the target of an update
TargetResolved ==
    /\ pc = "save"
    /\ pc' = "update_write"
    /\ LET found == search_by_key(dst[transformed_records[opIdx].model],
                                  OperationRecord(src).key)
       IN /\ OperationRecord(src).new_id # None =>
                 dst_record' = OperationRecord(src).new_id
          /\ OperationRecord(src).new_id = None =>
                 found # <<>> /\ dst_record' = found[1]
          /\ OperationRecord(src').new_id = dst_record'
          /\ Last(opLog').dst_id = dst_record'

\* the step that writes the data of an update
TargetWritten ==
    /\ pc = "update_write"
    /\ pc' \in {"save", "fetch"}
    /\ LET op == transformed_records[opIdx]
           table == dst[op.model]
       IN /\ Len(dst'[op.model]) = Len(table)
          /\ \A i \in 1..Len(table) :
                 IF table[i].id = dst_record
                 THEN dst'[op.model][i] = [id |-> dst_record, key |-> op.key]
                 ELSE dst'[op.model][i] = table[i]
          /\ \A m \in AllModels \ {op.model} : dst'[m] = dst[m]

\* C15: the target of an update is the record the back-reference of the
\* source record names when it has one, and the first record the search by
\* natural key finds only when it has none; the back-reference is then the
\* id of the target, and the data is written on that record and no other.
C15_UpdateTargetResolution ==
    [][/\ (pc = "save" /\ pc' = "update_write") => TargetResolved
       /\ (pc = "update_write" /\ pc' \in {"save", "fetch"}) => TargetWritten]_vars

\* an update is about to be written on the record the back-reference names,
\* which is not the record the search by natural key would find
C15_Witness ==
    /\ pc = "update_write"
    /\ OperationRecord(src).new_id = dst_record
    /\ search_by_key(dst[transformed_records[opIdx].model],
                     OperationRecord(src).key) # <<dst_record>>

\* migrate_model has returned for the model m in the current run
Completed(m) ==
    \/ pc = "done"
    \/ \E k \in 1..(modelIdx - 1) : models_to_migrate[k] = m

\* the lines of the mapping file of a model, none when there is no file
FileLines(m) ==
    IF m \in DOMAIN files THEN {files[m][k] : k \in 1..Len(files[m])} ELSE {}

\* C16: when the migration of an entity type has ended, and before the next
\* starts, the mapping table is flushed to its file: the file holds the
\* Correlation of every record the run created for that entity type, so
\* that a kill later in the run does not lose it.
C16_FlushAtEndOfEntityType ==
    \A i \in CreatesOf(opLog) :
        (opLog[i].run = run /\ Completed(opLog[i].model)) =>
            format_line(opLog[i].old_id, opLog[i].dst_id)
                \in FileLines(handler_model_name(models_handlers[opLog[i].model]))

\* the entry of source id s in the mapping file of model m, None when the
\* file has none
FileEntry(m, s) ==
    IF m \in DOMAIN savedTable /\ s \in DOMAIN savedTable[m]
    THEN savedTable[m][s] ELSE None

\* C17: get_mapping loads the table of a model from its file on the first
\* access: called on a store that has cached nothing it returns the entry
\* the file holds, and it returns None only for a source id that is mapped
\* neither in memory nor in the file.
C17_GetLoadsLazily ==
    (lastOp.op = "get" /\ raised = "none") =>
        /\ lastOp.emptyBefore => ret = FileEntry(lastOp.model, lastOp.source_id)
        /\ ret = None => FileEntry(lastOp.model, lastOp.source_id) = None

\* what get_mapping(m, s) returns from the cache c
Mapped(c, m, s) == get_mapping(c, m, s).result

\* the step leaves what get_mapping returns unchanged, for every pair but
\* the pairs of the set except
SameMappingsBut(except) ==
    \A m \in MapModels, s \in MapSrcIds :
        <<m, s>> \notin except => Mapped(cache', m, s) = Mapped(cache, m, s)

\* C18: set_mapping is an upsert and the last write wins: after
\* set_mapping(t, s, d) get_mapping(t, s) returns d, whatever was stored
\* for (t, s) before, and every other pair keeps its entry; get_mapping
\* returns the entry of the cache, and no call between two set_mapping
\* calls (get, save, load) changes an entry.
C18_SetIsUpsertLastWriteWins ==
    [][/\ lastOp'.op = "set" =>
              /\ Mapped(cache', lastOp'.model, lastOp'.source_id) = lastOp'.dest_id
              /\ SameMappingsBut({<<lastOp'.model, lastOp'.source_id>>})
       /\ lastOp'.op = "get" =>
              ret' = Mapped(cache, lastOp'.model, lastOp'.source_id)
       /\ lastOp'.op \in {"get", "save", "load"} => SameMappingsBut({})]_vars

\* an entry that was saved with one dest_id has been set to another, next
\* to a second entry of the same table
C18_Witness ==
    /\ lastOp.op = "set"
    /\ Mapped(cache, lastOp.model, lastOp.source_id) = lastOp.dest_id
    /\ FileEntry(lastOp.model, lastOp.source_id) \notin {None, lastOp.dest_id}
    /\ Cardinality(DOMAIN cache[lastOp.model]) = 2

\* the source ids that have an entry in the table of model m
MappedIds(c, m) == IF m \in DOMAIN c THEN DOMAIN c[m] ELSE {}

\* C19: within the life of a store, each table maps a source id to at most
\* one dest_id, and no call (get_mapping, set_mapping, save_mappings,
\* load_mappings_from_files) removes an entry or a table: the set of mapped
\* source ids of every model only grows.  A step "init" is a new store, in
\* a new process.
C19_MappedSourceIdsOnlyGrow ==
    [][lastOp'.op # "init" =>
          \A m \in MapModels :
              /\ MappedIds(cache, m) \subseteq MappedIds(cache', m)
              /\ m \in DOMAIN cache => m \in DOMAIN cache'
              /\ \A s \in MappedIds(cache', m) : cache'[m][s] \in MapDstIds]_vars

\* both tables hold entries, one of them two, a file has been written, and
\* a call that raised after the set_mapping calls has kept the entries
C19_Witness ==
    /\ lastOp.op \in {"get", "save", "load"}
    /\ MappedIds(cache, "res.groups") = MapSrcIds
    /\ MappedIds(cache, "res.users") = {1}
    /\ "res.groups" \in DOMAIN files
    /\ raised # "none"

\* the id of the destination record that the search by name finds for the
\* source record of id s of model m; None when there is no such record
DestinationMatch(m, s) ==
    LET hits == {i \in 1..Len(src[m]) : src[m][i].id = s} IN
    IF hits = {} THEN None
    ELSE LET found == search_by_key(dst[m], src[m][CHOOSE i \in hits : TRUE].key)
         IN IF found = <<>> THEN None ELSE found[1]

\* C20: after load_mappings_from_database(model, "name"), get_mapping of a
\* source record whose name a destination record bears returns the id of
\* that destination record.
C20_BulkPopulateSeedsStore ==
    [][(/\ lastOp.op = "bulk"
        /\ lastOp'.op = "get"
        /\ lastOp'.model = lastOp.model
        /\ DestinationMatch(lastOp'.model, lastOp'.source_id) # None)
       => ret' = DestinationMatch(lastOp'.model, lastOp'.source_id)]_vars

\* what holds of load_mappings_from_database: the store is left as it was,
\* and the table the loader built maps each source id to the id of the
\* first source record of the same name
BulkPopulateLeavesStore ==
    [][lastOp'.op = "bulk" =>
          /\ cache' = cache
          /\ \A s \in DOMAIN lastOp'.loaded[lastOp'.model] :
                 lastOp'.loaded[lastOp'.model][s] =
                     search_by_key(src[lastOp'.model],
                                   src[lastOp'.model][index_of(src[lastOp'.model], s)].key)[1]]_vars

\* what the loop of the MappingLoader has done when it has ended on a
\* collection of N records
LoaderPaginationComplete ==
    pc = "loaded" =>
        LET N == Len(src["res.groups"])
            k == CeilDiv(N, loader_limit)
        IN /\ Len(pageLog) = k + 1
           /\ \A i \in 1..Len(pageLog) : pageLog[i].offset = (i - 1) * loader_limit
           /\ \A i \in 1..k : pageLog[i].n > 0
           /\ Last(pageLog).n = 0
           /\ visited = [i \in 1..N |-> src["res.groups"][i].id]
           /\ lastOp.loaded =
                  load_mapping_by_field_from_database(src, dst, "res.groups")

\* C21: the loop of load_mapping_by_field_from_database fetches at the
\* offsets 0, limit, 2 * limit, ..., it ends on the first empty page and on
\* no other (a short page is processed and followed by another fetch), it
\* has then passed over every record of the source collection once, in id
\* order, and on a collection that does not change it does end.
C21_LoaderPagination ==
    /\ []LoaderPaginationComplete
    /\ <>(pc = "loaded")

\* a full page, then a short page, then the empty one
C21_Witness ==
    /\ pc = "loaded"
    /\ Len(src["res.groups"]) > loader_limit
    /\ Len(src["res.groups"]) % loader_limit # 0
    /\ Len(pageLog) >= 3

\* the pcs at which the page loop of the current migrate_model call runs
InPageLoop == {"fetch", "transform", "save", "backref", "update_write"}

\* C22: the models are migrated one after the other in the order of
\* models_to_migrate: within a run the model changes only to the next of the
\* schedule and only when the page loop of the current one has ended (by
\* itself or by an exception), every fetch and every write to the source or
\* the destination is made inside the page loop of the current model, on the
\* collection of its handler, and migrate_model is called once for each
\* model of the schedule.
C22_ModelsOneAfterTheOther ==
    [][/\ (run' = run /\ modelIdx' # modelIdx) =>
              /\ modelIdx' = modelIdx + 1
              /\ pc \in {"complete", "failed"}
       /\ (Len(pageLog') > Len(pageLog) \/ src' # src \/ dst' # dst \/ opLog' # opLog) =>
              /\ pc \in InPageLoop
              /\ run' = run /\ modelIdx' = modelIdx
              /\ \A m \in AllModels :
                     (src'[m] # src[m] \/ dst'[m] # dst[m]) =>
                         m = handler_model_name(handler_of(W))
              /\ \A i \in (Len(opLog) + 1)..Len(opLog') :
                     opLog'[i].model = current_model(W)
       /\ \A i, j \in 1..Len(called') : called'[i] = called'[j] => i = j
       /\ pc' = "done" => called' = models_to_migrate]_vars

\* a run is over in which records of two models were written, those of
\* res.users before those of product.attribute
C22_Witness ==
    /\ pc = "done"
    /\ Entries(opLog, run, "res.users") # {}
    /\ Entries(opLog, run, "product.attribute") # {}
    /\ \A i \in Entries(opLog, run, "res.users"),
          j \in Entries(opLog, run, "product.attribute") : i < j

\* the models the handler of m resolves references against
ForeignKeys(m) == handler_foreign_keys(m) \cup product_template_foreign_keys(m)

\* C23: when migrate_model is called for a model, it has been called
\* earlier in the same run for every model against which the handler of
\* that model resolves references.
C23_TargetsScheduledBefore ==
    \A i \in 1..Len(called) :
        \A t \in ForeignKeys(called[i]) :
            \E j \in 1..(i - 1) : called[j] = t

\* the part of the schedule that is in dependency order: product.attribute
\* is migrated before the attribute values and the attribute lines, and
\* product.template before the attribute lines
AttributeTargetsBefore ==
    \A i \in 1..Len(called) :
        called[i] \in {"product.attribute.value", "product.attribute.line"} =>
            \A t \in ForeignKeys(called[i]) : \E j \in 1..(i - 1) : called[j] = t

\* a call of the store that reads or writes a mapping file
FileOperations == {"save", "load"}

\* what holds of a file operation that fails: the tables of the store keep
\* every entry they had
FailedFileOperationKeepsEntries ==
    [][(lastOp'.op \in FileOperations /\ raised' # "none") =>
          SameMappingsBut({})]_vars

WithoutBackReference(r) == [id |-> r.id, key |-> r.key]

\* C25: a step of the pipeline changes nothing in the source but the field
\* new_id of records: every collection of the source keeps its records, in
\* number, ids and the other fields, and a new_id that changes is set to the
\* id of the destination record the step created or resolved.
C25_SourceReadOnlyButBackReference ==
    [][\A m \in AllModels :
          /\ Len(src'[m]) = Len(src[m])
          /\ \A i \in 1..Len(src[m]) :
                 /\ WithoutBackReference(src'[m][i]) = WithoutBackReference(src[m][i])
                 /\ src'[m][i].new_id # src[m][i].new_id =>
                        /\ pc \in {"save", "backref"}
                        /\ id_exists(dst'[m], src'[m][i].new_id)]_vars

\* a run is over that wrote the back-reference of records of two models
C25_Witness ==
    /\ pc = "done"
    /\ \E i \in 1..Len(src["res.users"]) : src["res.users"][i].new_id # None
    /\ \E i \in 1..Len(src["product.attribute"]) :
           src["product.attribute"][i].new_id # None

\* C26: two processes of the pipeline that run at the same time, each
\* deciding create or update by its own search of the destination, leave
\* no two records with the same natural key in a collection of the
\* destination.
C26_ConcurrentRunsCreateNoDuplicate ==
    \A m \in AllModels :
        \A i, j \in 1..Len(dst[m]) : dst[m][i].key = dst[m][j].key => i = j

\* what holds: as long as one of the two processes has not started, the
\* other leaves no two records with the same natural key (the names of the
\* source are distinct)
OneProcessCreatesNoDuplicate ==
    (pairA.called = <<>> \/ pairB.called = <<>>) =>
        \A m \in AllModels :
            \A i, j \in 1..Len(dst[m]) : dst[m][i].key = dst[m][j].key => i = j

\* the source ids of a page of records, and those its operations are for
RecordIds(recs) == [i \in 1..Len(recs) |-> recs[i].id]

OperationIds(ops) == [i \in 1..Len(ops) |-> ops[i].old_id]

\* C27: save_into_destination is called when apply_transformations has run
\* on every record of the page, with the operations of all of them in the
\* order of the records, starting from an empty list at each page; inside
\* the call the operations are applied in that order; the call is left only
\* for the next fetch or by an exception, so it is made once for a page;
\* and a fetch that returns no record is followed by no transformation and
\* no call of save_into_destination.
C27_OneSavePerPageAfterAllTransforms ==
    [][/\ (pc = "fetch" /\ pc' = "transform") =>
              /\ records' # <<>>
              /\ transformed_records' = <<>>
       /\ (pc = "transform" /\ pc' = "save") =>
              /\ OperationIds(transformed_records') = RecordIds(records)
              /\ opIdx' = 1
       /\ (pc # "transform" /\ pc' = "save") =>
              /\ pc \in SaveSteps
              /\ transformed_records' = transformed_records
              /\ opIdx' = opIdx + 1
       /\ Len(opLog') > Len(opLog) =>
              /\ pc = "save"
              /\ Last(opLog').old_id = records[opIdx].id
       /\ (pc \in SaveSteps /\ pc' \notin SaveSteps /\ run' = run) =>
              \/ pc' = "failed"
              \/ pc' = "fetch" /\ opIdx = Len(transformed_records)
       /\ (Len(pageLog') > Len(pageLog) /\ Last(pageLog').n = 0) =>
              pc' = "complete"
       /\ pc' \in {"transform", "save", "backref", "update_write"} =>
              (Len(pageLog') > 0 /\ Last(pageLog').n > 0)]_vars

\* the second operation of a full page is being applied, and an earlier
\* page of the run was applied too
C27_Witness ==
    /\ pc = "save"
    /\ Len(records) = batch_size
    /\ opIdx = batch_size
    /\ Len(transformed_records) = batch_size
    /\ Len(opLog) > batch_size

\* C28: a call that raises during load_mappings_from_database at the
\* construction of Migration does not end the run: whenever the process has
\* ended, migrate_model has been called for every model of the schedule.
C28_AssemblyFailureDoesNotAbortRun ==
    pc \in {"done", "aborted"} => called = models_to_migrate

\* what holds: the process ends without a call of migrate_model exactly
\* when the construction of Migration raised
AbortedOnlyAtAssembly ==
    /\ pc = "aborted" => (failure.pc = "init" /\ called = <<>> /\ dst = dst0)
    /\ pc = "done" => called = models_to_migrate

\* the operation to apply next is an update for a source record whose
\* back-reference names a record that is not in the destination, while the
\* search by natural key finds one
StaleBackReference ==
    /\ pc = "save"
    /\ transformed_records[opIdx].action = "update"
    /\ LET op == transformed_records[opIdx]
           r == OperationRecord(src)
       IN /\ r.new_id # None
          /\ ~id_exists(dst[op.model], r.new_id)
          /\ search_by_key(dst[op.model], r.key) # <<>>

\* C29: an update for a source record whose back-reference names no record
\* of the destination is applied to the record the search by natural key
\* finds.
C29_StaleBackReferenceFallsBackToSearch ==
    [][(StaleBackReference /\ dst' = dst) =>
          /\ pc' = "update_write"
          /\ dst_record' = search_by_key(dst[transformed_records[opIdx].model],
                                         OperationRecord(src).key)[1]]_vars

\* what the code does with such an update: browse of the back-reference
\* raises, no record is written, and the exception ends the migration of
\* the model
StaleBackReferenceRaises ==
    [][(StaleBackReference /\ dst' = dst) =>
          /\ pc' = "failed"
          /\ src' = src
          /\ opLog' = opLog]_vars

\* the next operation of save_into_destination is an update for a source
\* record that has no back-reference, and the destination is as transform
\* found it
UpdateWithoutBackReference ==
    /\ pc = "save"
    /\ dst = dst0
    /\ LET op == transformed_records[opIdx]
           table == src[line_model_name(LineHandlers[modelIdx])]
       IN /\ op.action = "update"
          /\ table[index_of(table, op.old_id)].new_id = None

\* C30: in the handlers of the attribute lines and of the template attribute
\* values, an update emitted for a record without back-reference resolves a
\* record of the destination and writes to it, the destination being
\* unchanged since transform decided that the record exists.
C30_UpdatePathFindsWhatTransformFound ==
    [][UpdateWithoutBackReference =>
          /\ dst_record' # None
          /\ id_exists(dst[transformed_records[opIdx].model], dst_record')
          /\ opLog'[Len(opLog')].wrote]_vars

\* the same for the handlers of the scheduled models (res.users,
\* res.partner, product.attribute), which search the collection and the
\* field transform searched: the update is on its way to the record the
\* search finds unless the call to the destination raised or the process
\* was stopped
ScheduledHandlersFindWhatTransformFound ==
    [][(/\ pc = "save"
        /\ transformed_records[opIdx].action = "update"
        /\ OperationRecord(src).new_id = None
        /\ pc' \notin {"failed", "init"})
       => /\ pc' = "update_write"
          /\ dst_record' # None
          /\ id_exists(dst[transformed_records[opIdx].model], dst_record')]_vars

\* the destination record a back-reference designates, if there is one
BackReferenceTargets(m, r) ==
    {i \in 1..Len(dst[m]) : dst[m][i].id = r.new_id}

\* every back-reference of the source designates a record of the same
\* collection of the destination that has the natural key of its record
BackReferencesDesignateTheirRecord ==
    \A m \in {"res.users", "product.attribute"} :
        \A i \in 1..Len(src[m]) :
            src[m][i].new_id # None =>
                /\ BackReferenceTargets(m, src[m][i]) # {}
                /\ \A j \in BackReferenceTargets(m, src[m][i]) :
                       dst[m][j].key = src[m][i].key

\* dst_record.write(data) of the update being applied has raised
UpdateWriteFailed ==
    /\ pc = "failed"
    /\ failure.pc = "update_write"

\* an operation applied before the failed one had designated the same
\* destination record for the same source record
DesignatedBefore ==
    \E k \in 1..(Len(opLog) - 1) :
        /\ opLog[k].model = opLog[Len(opLog)].model
        /\ opLog[k].old_id = opLog[Len(opLog)].old_id
        /\ opLog[k].dst_id = dst_record

\* C31: every back-reference stored on a source record is the id of a
\* record of the destination with the natural key of that source record,
\* and an update whose write to the destination record failed leaves no
\* back-reference to that record on its source record.
C31_BackReferencesAreValid ==
    /\ BackReferencesDesignateTheirRecord
    /\ (UpdateWriteFailed /\ ~DesignatedBefore) =>
           LET table == src[handler_model_name(handler_of(W))]
           IN \A i \in 1..Len(table) :
                  table[i].id = transformed_records[failure.opIdx].old_id
                      => table[i].new_id # dst_record

\* apply_transformations has returned for the next record of the page
TransformReturned ==
    /\ pc = "transform"
    /\ pc' \in {"transform", "save"}
    /\ visited' = Append(visited, records[recIdx].id)

\* C32: apply_transformations of the user and product-attribute handlers
\* emits exactly one operation for the record: an update if the destination
\* holds a record with the record's natural key at the time of the call, a
\* create otherwise, carrying the record's source id as old_id; the call
\* writes nothing to the source, the destination or the MappingProvider.
C32_TransformEmitsOneOperation ==
    [][TransformReturned =>
          LET record == records[recIdx]
              m == handler_model_name(handler_of(W))
          IN /\ Len(transformed_records') = Len(transformed_records) + 1
             /\ SubSeq(transformed_records', 1, Len(transformed_records))
                    = transformed_records
             /\ LET op == transformed_records'[Len(transformed_records')]
                IN /\ op.action = IF \E i \in 1..Len(dst[m]) :
                                         dst[m][i].key = record.key
                                  THEN "update" ELSE "create"
                   /\ op.old_id = record.id
                   /\ op.model = m
             /\ src' = src
             /\ dst' = dst
             /\ cache' = cache
             /\ files' = files]_vars

\* a page for which transform emitted an update and a create
C32_Witness ==
    /\ pc = "save"
    /\ Len(transformed_records) = 2
    /\ transformed_records[1].action = "update"
    /\ transformed_records[2].action = "create"

\* the handlers of models_handlers
Handlers == {models_handlers[m] : m \in DOMAIN models_handlers}

\* what self.mapping_provider.get_mapping(m, s) returns in handler h when the
\* Migration's MappingProvider holds the cache c
GetThroughHandler(h, c, m, s) ==
    LET providers == ("mappings_provider" :> c)
    IN get_mapping(providers[handler_mapping_provider(h)], m, s).result

\* C33: a mapping set in the MappingProvider, or seeded by
\* load_mappings_from_database at assembly, is what get_mapping returns
\* through every handler of the Migration.
C33_HandlersShareSeededStore ==
    [][/\ lastOp'.op = "set" =>
              \A h \in Handlers :
                  GetThroughHandler(h, cache', lastOp'.model, lastOp'.source_id)
                      = lastOp'.dest_id
       /\ lastOp'.op = "bulk" =>
              \A h \in Handlers :
                  \A s \in DOMAIN lastOp'.loaded[lastOp'.model] :
                      GetThroughHandler(h, cache', lastOp'.model, s)
                          = lastOp'.loaded[lastOp'.model][s]]_vars

\* the part about set_mapping: the mapping just set is returned through
\* every handler
SetIsSeenThroughEveryHandler ==
    [][lastOp'.op = "set" =>
          \A h \in Handlers :
              GetThroughHandler(h, cache', lastOp'.model, lastOp'.source_id)
                  = lastOp'.dest_id]_vars

\* the table load_mappings_from_database fills is a second table for the
\* model, of the MappingLoader: the MappingProvider's holds none of its
\* entries
SeededTableIsNotTheStore ==
    [][lastOp'.op = "bulk" =>
          /\ cache' = cache
          /\ \A h \in Handlers :
                 \A s \in DOMAIN lastOp'.loaded[lastOp'.model] :
                     GetThroughHandler(h, cache', lastOp'.model, s) =
                         dict_get(ensure_model(cache, lastOp'.model)[lastOp'.model], s)]_vars

\* the entry the MappingProvider holds for a source id of res.groups
GroupMapping(c, s) == get_mapping(c, "res.groups", s).result

\* a call of find_dest_group_id by a handler of hs behaves cache-first
FindIsCacheFirst(hs) ==
    (lastOp'.op = "find" /\ lastOp'.handler \in hs) =>
        LET s == lastOp'.source_id
            group == src["res.groups"][index_of(src["res.groups"], s)]
            match == search_by_key(dst["res.groups"], group.key)
            unchanged == \A t \in MapSrcIds : GroupMapping(cache', t) = GroupMapping(cache, t)
        IN /\ GroupMapping(cache, s) # None =>
                 /\ ret' = GroupMapping(cache, s)
                 /\ ~lastOp'.queried
                 /\ unchanged
           /\ (GroupMapping(cache, s) = None /\ match # <<>>) =>
                 /\ ret' = match[1]
                 /\ GroupMapping(cache', s) = match[1]
           /\ (GroupMapping(cache, s) = None /\ match = <<>>) =>
                 /\ ret' = None
                 /\ unchanged

\* C34: find_dest_group_id returns the entry of the MappingProvider for the
\* group's source id without querying the destination when there is one;
\* otherwise it searches the destination by name, returns and stores the id
\* found, or returns None and leaves the mappings unchanged.
C34_FindDestGroupIdIsCacheFirst ==
    [][FindIsCacheFirst({"ResUsersHandler", "ResPartnerHandler",
                         "ProductAttributeHandler"}
                        \cup {LineHandlers[i] : i \in 1..Len(LineHandlers)})]_vars

\* the same for find_dest_group_id of res_users.py and product_attribute.py
CacheFirstInUsersAndAttributes ==
    [][FindIsCacheFirst({"ResUsersHandler", "ProductAttributeHandler"})]_vars

\* the fetches of the migrate_model call under way are at most one per page of the
\* model's source records and one more, which finds the empty page
FetchesBounded ==
    pc \in InPageLoop \cup {"complete", "failed"} =>
        Len(pageLog) <=
            (Len(src[current_model(W)]) + batch_size - 1) \div batch_size + 1

\* C35: Migration.run terminates on a finite source that does not grow,
\* whichever Odoo calls raise: every page loop ends after finitely many
\* fetches, by an empty page or by an exception, and run() returns.
C35_RunTerminates ==
    /\ []FetchesBounded
    /\ <>(pc = "done")

\* run() has returned after a call raised and after a model was migrated
\* over more than one page
C35_Witness ==
    /\ pc = "done"
    /\ runStatus[Len(runStatus)].faults > 0
    /\ Len(opLog) > batch_size

====
